---- MODULE Spec2Model ----
(***************************************************************************)
(* A model of the bytecode interpreter of frawk (src/src/interp.rs).       *)
(*                                                                         *)
(* The interpreter is one Rust function, Interp::run, a dispatch loop over *)
(* typed instructions.  The module models it one opcode per action and     *)
(* groups the opcodes into several specifications:                         *)
(*                                                                         *)
(*   Spec       the dispatch loop: Call / Ret / Halt / Jmp / JmpIf and the *)
(*              output opcodes (PrintStdout, Print, Printf, Sprintf,       *)
(*              Close), run over a family of small programs;               *)
(*   SpecMap    the map opcodes, PushIntInt and PopIntInt over a heap of   *)
(*              shared maps;                                               *)
(*   SpecIter   the iterator opcodes over maps that change meanwhile;      *)
(*   SpecRng    Rand / Srand / ReseedRng, on two interpreters side by side;*)
(*   SpecFile   NextFile / NextLineStdin* and the file variables;          *)
(*   SpecRead   NextLine / ReadErr on named files;                         *)
(*   SpecLine   GetColumn / SetColumn / NF / FS on the current record;     *)
(*   SpecSplit  SplitInt into a map that may hold entries;                 *)
(*   SpecPure   the integer arithmetic opcodes and Substr;                 *)
(*   SpecStr    Concat / LenStr / SubstrIndex / Match / IsMatch / Substr;  *)
(*   SpecStack  PushInt / PopInt / PushStr / PopStr on the value stacks;   *)
(*   SpecAlloc  AllocMapIntInt on a register that shares its map;          *)
(*   SpecSub    Sub / GSub / MovStr;                                       *)
(*   SpecJit    the reference counting of the code llvm::View generates    *)
(*              for Mov and LoadVar (src/src/llvm/mod.rs);                 *)
(*   SpecLive   the dispatch loop over the programs without a backward     *)
(*              jump and without recursion, with a fair dispatch step.     *)
(*                                                                         *)
(* Function and instruction indices are 0-based as in the Rust code; TLA+  *)
(* tuples are 1-based, hence the +1 wherever a tuple is indexed.           *)
(***************************************************************************)
EXTENDS Integers, Sequences, FiniteSets

VARIABLES
    \* ---- Interp fields used by the dispatch loop (interp.rs:24-56)
    build,        \* "debug" | "release": cfg(debug_assertions), interp.rs:1118-1121
    status,       \* how run() stands: "running" | "ok" | "err" | "panic"
    instrs,       \* Interp::instrs, one instruction vector per function
    cur_fn,       \* run()'s local cur_fn
    cur,          \* run()'s local cur
    stack,        \* Interp::stack, the call stack of (function, label)
    ints,         \* Interp::ints.regs
    strs,         \* Interp::strs.regs
    write_files,  \* Interp::write_files: stdout and the table of named sinks
    \* ---- history of the dispatch loop, read only by the properties
    nexec,        \* number of instructions executed so far
    pending,      \* call sites (function, index) of the Calls not yet returned from
    last,         \* the instruction executed last and the state it started from
    term          \* the first instruction that had to end the run (a failed write,
                  \* format or close, an error, Halt, Ret on the empty call stack)
                  \* and the state it started from

dispVars ==
    <<instrs, cur_fn, cur, stack, ints, strs, write_files, nexec, pending, last, term>>

VARIABLES
    \* ---- the random source, of two interpreters side by side (SpecRng)
    current_seed, \* Interp::current_seed of each interpreter
    rng,          \* Interp::rng of each interpreter: the generator's state
    rng_regs,     \* of each interpreter: the Int register Srand and ReseedRng
                  \* write and the Float register Rand writes
    \* ---- history of the random source, read only by the properties
    rng_hist      \* of each interpreter: the seed it was built with, the seed
                  \* active now and before the last Srand/ReseedRng, and the
                  \* Rand results since the last reseeding

rngVars == <<current_seed, rng, rng_regs, rng_hist>>

VARIABLES
    \* ---- the input files and the file variables (SpecFile)
    read_files,   \* Interp::read_files: the current primary source and the
                  \* queue of the files after it
    variables,    \* Interp::vars (runtime::Variables): nr, fnr, filename
    line,         \* Interp::line, the record NextLineStdinFused reads into
    file_regs,    \* the registers the input opcodes write: one Str, one Int
    \* ---- history of the input opcodes, read only by the properties
    file_hist     \* the input opcode executed last, the file variables and
                  \* the reader it started from, and the instruction count

fileVars == <<read_files, variables, line, file_regs, file_hist>>

VARIABLES
    \* ---- the maps and their iterators (SpecMap)
    heap,         \* the maps alive, by identity: a register of maps holds a
                  \* handle (Rc) on a map, not the map
    maps_int_int, \* Interp::maps_int_int: .regs, the handles the registers
                  \* hold, and .stack, the handles pushed
    iters_int,    \* Interp::iters_int.regs: the keys each iterator has left
    map_regs,     \* the Int register Lookup, Contains, Len, IterHasNext and
                  \* IterGetNext write
    \* ---- history of the map opcodes, read only by the properties
    map_hist      \* which registers were made to denote one map and are not
                  \* overwritten since, what each iterator was created over
                  \* and has yielded, and the instruction count

mapVars == <<heap, maps_int_int, iters_int, map_regs, map_hist>>

VARIABLES
    maps_int_str, \* Interp::maps_int_str.regs: the maps from Int to Str
    val_stacks,   \* Interp::ints.stack and Interp::strs.stack, the value stacks
                  \* of Push / Pop; for the properties, the values pushed and
                  \* not yet popped and the last Push / Pop with the state it
                  \* started from
    jit           \* the code llvm::View generates for one instruction
                  \* (src/src/llvm/mod.rs) and the state it runs on: the global
                  \* and local registers, the built-in variable and the
                  \* reference count of each value

\* What the opcodes of one group leave alone.
envVars == <<rngVars, fileVars, mapVars, maps_int_str, val_stacks, jit>>
rngFrame == <<build, status, dispVars, fileVars, mapVars, maps_int_str, val_stacks, jit>>
fileFrame == <<build, status, dispVars, rngVars, mapVars, maps_int_str, val_stacks, jit>>
mapFrame == <<build, dispVars, rngVars, fileVars, maps_int_str, val_stacks, jit>>

-----------------------------------------------------------------------------
(* Bounds of the model. *)

\* run() is cut off after this many instructions (programs may loop forever).
MaxSteps == 14

\* Int is i64 and usize is u64 in the code.  The model keeps the two's
\* complement arithmetic and scales the width down to IntBits bits for both.
IntBits == 4

\* Each interpreter of SpecRng executes at most MaxRngOps instructions.
MaxRngOps == 3

\* Strings drawn as inputs have at most MaxStrLen bytes, each one of Bytes.
MaxStrLen == 3
Bytes == {97, 98}

\* SpecFile executes at most MaxFileOps input instructions, and the record
\* counters a program stores are at most MaxRecords.
MaxFileOps == 4
MaxRecords == 2

\* SpecMap executes at most MaxMapOps map instructions, with at most
\* MaxMapStack maps pushed at a time.
MaxMapOps == 5
MaxMapStack == 1
MaxStackOps == 4

-----------------------------------------------------------------------------
(* Instructions.  Every instruction is a record with the same fields, so   *)
(* that instruction vectors are comparable values: op is the opcode; a, b, *)
(* c and d are register numbers, labels, function indices or Int constants;*)
(* s is a Str constant; args is the (s)printf argument list of             *)
(* <<register, type>> pairs; flag is the `append` flag.  A Str is the      *)
(* tuple of its bytes.                                                     *)

Instr(op, a, b, c, s, args, flag) ==
    [op |-> op, a |-> a, b |-> b, c |-> c, d |-> 0, s |-> s, args |-> args,
     flag |-> flag]

IStoreConstStr(sr, s)  == Instr("StoreConstStr", sr, 0, 0, s, <<>>, FALSE)
IStoreConstInt(ir, i)  == Instr("StoreConstInt", ir, i, 0, <<>>, <<>>, FALSE)
IJmpIf(cond, lbl)      == Instr("JmpIf", cond, lbl, 0, <<>>, <<>>, FALSE)
IJmp(lbl)              == Instr("Jmp", lbl, 0, 0, <<>>, <<>>, FALSE)
ICall(func)            == Instr("Call", func, 0, 0, <<>>, <<>>, FALSE)
IRet                   == Instr("Ret", 0, 0, 0, <<>>, <<>>, FALSE)
IHalt                  == Instr("Halt", 0, 0, 0, <<>>, <<>>, FALSE)
IPrintStdout(txt)      == Instr("PrintStdout", txt, 0, 0, <<>>, <<>>, FALSE)
IPrint(txt, out, app)  == Instr("Print", txt, out, 0, <<>>, <<>>, app)
IAddInt(res, l, r)     == Instr("AddInt", res, l, r, <<>>, <<>>, FALSE)
IMulInt(res, l, r)     == Instr("MulInt", res, l, r, <<>>, <<>>, FALSE)
IMinusInt(res, l, r)   == Instr("MinusInt", res, l, r, <<>>, <<>>, FALSE)
INegInt(res, ir)       == Instr("NegInt", res, ir, 0, <<>>, <<>>, FALSE)
IModInt(res, l, r)     == Instr("ModInt", res, l, r, <<>>, <<>>, FALSE)
ISubstr(res, base, l, r) ==
    [Instr("Substr", res, base, l, <<>>, <<>>, FALSE) EXCEPT !.d = r]
\* Printf { output: None, fmt, args }
IPrintfStdout(fmt, args)         == Instr("Printf", fmt, 0, 0, <<>>, args, FALSE)
\* Printf { output: Some((out, append)), fmt, args }: c = 1 marks Some
IPrintfFile(out, app, fmt, args) == Instr("Printf", fmt, out, 1, <<>>, args, app)
\* Sprintf { dst, fmt, args }
ISprintf(dst, fmt, args) == Instr("Sprintf", dst, fmt, 0, <<>>, args, FALSE)
IClose(file)             == Instr("Close", file, 0, 0, <<>>, <<>>, FALSE)

-----------------------------------------------------------------------------
(* The programs the dispatch loop is run over: what the compiler hands to  *)
(* Interp::new (instruction vectors, the entry function, register counts). *)
(* Every function ends with Halt or Ret and every label and function index *)
(* is in range, as the compiler guarantees.                                *)

S_x   == <<120>>                \* "x"
S_out == <<111, 117, 116>>      \* "out"
S_fmt == <<37, 100>>            \* "%d"

\* Nested calls, every kind of print, ends by Ret on the empty call stack.
ProgNested ==
    [main |-> 0, nints |-> 1, nstrs |-> 2,
     funcs |-> << << IStoreConstStr(0, S_x), IStoreConstStr(1, S_out), ICall(1),
                     IPrintStdout(0), ICall(2), IRet >>,
                  << IPrint(0, 1, FALSE), ICall(2), IRet >>,
                  << IPrintfStdout(0, << <<0, "Int">> >>), IRet >> >>]

\* Entry function 1; recursion two deep, then Printf to a named sink and Halt
\* below two frames.
ProgHaltDeep ==
    [main |-> 1, nints |-> 1, nstrs |-> 2,
     funcs |-> << << IJmpIf(0, 3),
                     IPrintfFile(1, TRUE, 0, << <<0, "Str">>, <<0, "Int">> >>),
                     IHalt, IStoreConstInt(0, 0), ICall(0), IRet >>,
                  << IStoreConstInt(0, 1), IStoreConstStr(1, S_out), ICall(0),
                     IHalt >> >>]

\* A loop: Jmp backwards, a call in the loop body.
ProgLoop ==
    [main |-> 0, nints |-> 1, nstrs |-> 1,
     funcs |-> << << IStoreConstInt(0, 1), ICall(1), IJmpIf(0, 4), IHalt,
                     IStoreConstInt(0, 0), IJmp(1) >>,
                  << IPrintStdout(0), IRet >> >>]

\* Recursion without end: the call stack grows until the run is cut off.
ProgRecurse ==
    [main |-> 0, nints |-> 1, nstrs |-> 1,
     funcs |-> << << ICall(0), IRet >> >>]

\* Two calls of the same function from one frame; all frames unwind by Ret.
ProgUnwind ==
    [main |-> 0, nints |-> 1, nstrs |-> 1,
     funcs |-> << << IStoreConstInt(0, 1), ICall(1), IRet >>,
                  << IJmpIf(0, 2), IRet, IStoreConstInt(0, 0), ICall(1),
                     IPrint(0, 0, TRUE), ICall(1), IRet >> >>]

\* A Printf whose second argument is a map register.
ProgBadArg ==
    [main |-> 0, nints |-> 1, nstrs |-> 1,
     funcs |-> << << ICall(1), IHalt >>,
                  << IPrintfStdout(0, << <<0, "Int">>, <<0, "MapIntInt">> >>),
                     IRet >> >>]

\* Output to a named sink and to stdout around Close: a Close of the open
\* sink, prints to the same path after it, a Close of a path never opened,
\* a Sprintf whose result is printed.
ProgClose ==
    [main |-> 0, nints |-> 1, nstrs |-> 2,
     funcs |-> << << IStoreConstStr(0, S_x), IStoreConstStr(1, S_out),
                     IPrint(0, 1, FALSE),
                     IPrintfFile(1, TRUE, 0, << <<0, "Int">> >>), IClose(1),
                     IPrint(0, 1, TRUE), IPrintStdout(0), IClose(0),
                     ISprintf(0, 1, << <<0, "Str">>, <<0, "Int">> >>),
                     IPrintStdout(0), IHalt >> >>]

\* Argument lists with one argument that is a map or an iterator, in the
\* first, a middle and the last position.
BadArgLists ==
    { << <<0, "MapIntInt">>, <<0, "Int">>, <<0, "Str">> >>,
      << <<0, "Int">>, <<0, "IterInt">>, <<0, "Str">> >>,
      << <<0, "Int">>, <<0, "Str">>, <<0, "MapIntInt">> >> }

BadArgInstrs ==
    UNION { {ISprintf(0, 0, l), IPrintfStdout(0, l), IPrintfFile(1, TRUE, 0, l)} :
            l \in BadArgLists }

\* Output to stdout and to a sink, then a (s)printf with such a list.
ProgBadArgs(ins) ==
    [main |-> 0, nints |-> 1, nstrs |-> 2,
     funcs |-> << << IStoreConstStr(0, S_x), IStoreConstStr(1, S_out),
                     IPrintStdout(0), IPrint(0, 1, FALSE), ins, IHalt >> >>]

Programs ==
    {ProgNested, ProgHaltDeep, ProgLoop, ProgRecurse, ProgUnwind, ProgBadArg,
     ProgClose} \cup {ProgBadArgs(ins) : ins \in BadArgInstrs}

\* Jumps that only go forward, taken and not taken, around a call: the first
\* JmpIf is taken, the one in the callee is not, the Jmp skips a Halt.
ProgForward ==
    [main |-> 0, nints |-> 1, nstrs |-> 1,
     funcs |-> << << IStoreConstInt(0, 1), IJmpIf(0, 3), IHalt, ICall(1),
                     IJmp(6), IHalt, IRet >>,
                  << IStoreConstInt(0, 0), IJmpIf(0, 3), IPrintStdout(0),
                     IRet >> >>]

\* The shape of a program, read off its instruction vectors.
ForwardJumps(p) ==
    \A f \in DOMAIN p.funcs : \A i \in DOMAIN p.funcs[f] :
        /\ p.funcs[f][i].op = "Jmp" => p.funcs[f][i].a > i - 1
        /\ p.funcs[f][i].op = "JmpIf" => p.funcs[f][i].b > i - 1

\* f calls g (0-based function indices)
Calls(p, f, g) ==
    \E i \in DOMAIN p.funcs[f + 1] :
        p.funcs[f + 1][i].op = "Call" /\ p.funcs[f + 1][i].a = g

\* the functions reached from f by at most n calls, f included
RECURSIVE CalledWithin(_, _, _)
CalledWithin(p, f, n) ==
    IF n = 0 THEN {f}
    ELSE LET near == CalledWithin(p, f, n - 1)
         IN  near \cup {g \in 0..(Len(p.funcs) - 1) :
                            \E h \in near : Calls(p, h, g)}

AcyclicCalls(p) ==
    \A f \in 0..(Len(p.funcs) - 1) : \A g \in 0..(Len(p.funcs) - 1) :
        Calls(p, f, g) => f \notin CalledWithin(p, g, Len(p.funcs))

EndsTerminal(p) ==
    \A f \in DOMAIN p.funcs :
        p.funcs[f][Len(p.funcs[f])].op \in {"Halt", "Ret"}

WellFormed(p) == ForwardJumps(p) /\ AcyclicCalls(p) /\ EndsTerminal(p)

\* The programs without a backward jump and without recursion.
LivePrograms == {p \in Programs \cup {ProgForward} : WellFormed(p)}

-----------------------------------------------------------------------------
(* The writer (runtime::FileWrite).  Its code is not part of the files     *)
(* modelled here; it is modelled from its description: stdout, and a table *)
(* of named sinks keyed by path, each holding the texts written to it in   *)
(* order.  A write may fail (the consumer closed the pipe).                *)

NewFileWrite == [stdout |-> <<>>, sinks |-> <<>>]

write_str_stdout(wf, txt) == [wf EXCEPT !.stdout = Append(@, txt)]

write_str(wf, path, txt, append) ==
    LET old == IF path \in DOMAIN wf.sinks THEN wf.sinks[path] ELSE <<>>
    IN  [wf EXCEPT !.sinks =
            [p \in (DOMAIN wf.sinks) \cup {path} |->
                IF p = path THEN Append(old, txt) ELSE wf.sinks[p]]]

\* FileWrite::close(path): the outcomes of closing `path`.  An open sink is
\* flushed and removed, or its flush fails; for a path with no open sink the
\* call may leave the table alone or leave an unused entry behind
\* (interp.rs, the note in Close).
close(wf, path) ==
    IF path \in DOMAIN wf.sinks
    THEN {[err |-> FALSE,
           wf  |-> [wf EXCEPT !.sinks =
                       [p \in (DOMAIN wf.sinks) \ {path} |-> wf.sinks[p]]]],
          [err |-> TRUE, wf |-> wf]}
    ELSE {[err |-> FALSE, wf |-> wf],
          [err |-> FALSE,
           wf  |-> [wf EXCEPT !.sinks =
                       [p \in (DOMAIN wf.sinks) \cup {path} |->
                           IF p = path THEN <<>> ELSE wf.sinks[p]]]]}

\* FileRead::close(path): forget the named input file `path`, if it is open
close_read(rf, path) ==
    [rf EXCEPT !.named = [p \in (DOMAIN rf.named) \ {path} |-> rf.named[p]]]

\* Base-10 text of an Int, no padding (runtime::convert to Str).
RECURSIVE Digits(_)
Digits(n) == IF n < 10 THEN <<48 + n>> ELSE Digits(n \div 10) \o <<48 + (n % 10)>>

IntToStr(i) == IF i < 0 THEN <<45>> \o Digits(0 - i) ELSE Digits(i)

\* The text printf produces: the format followed by the arguments' texts.
RECURSIVE FormatArgs(_)
FormatArgs(args) ==
    IF args = <<>> THEN <<>>
    ELSE (IF Head(args).ty = "Int" THEN IntToStr(Head(args).v) ELSE Head(args).v)
         \o FormatArgs(Tail(args))

printf(fmt, args) == fmt \o FormatArgs(args)

-----------------------------------------------------------------------------
(* The dispatch loop, Interp::run.                                         *)

Func(f) == instrs[f + 1]

\* match unsafe { (*instrs).get_unchecked(cur) }
Cur == Func(cur_fn)[cur + 1]

Dispatch(op) ==
    /\ status = "running"
    /\ nexec < MaxSteps
    /\ cur < Len(Func(cur_fn))
    /\ Cur.op = op

Snapshot ==
    [cur_fn |-> cur_fn, cur |-> cur, stack |-> stack, ints |-> ints,
     strs |-> strs, maps_int_str |-> maps_int_str, write_files |-> write_files]

\* What the properties remember of the instruction being executed; ev says
\* whether it has to end the run: "write" (its write failed), "Halt", "Ret"
\* (on the empty call stack), "error" (a `?` returned its error), "format"
\* (the formatting of a Printf or Sprintf failed), "close" (the flush of a
\* Close failed) or "none".  `out` is what the instruction handed to the
\* writer, in order: Out entries, appended to the log of the run.
Out(std, path, text, closed) ==
    [std |-> std, path |-> path, text |-> text, closed |-> closed]

RecordOut(op, ev, out) ==
    /\ nexec' = nexec + 1
    /\ last' = [op |-> op, fn |-> cur_fn, at |-> cur, depth |-> Len(stack),
                sites |-> pending, n |-> nexec + 1, pre |-> Snapshot,
                log |-> last.log \o out]
    /\ term' = IF term.seen \/ ev = "none" THEN term
               ELSE [seen |-> TRUE, why |-> ev, op |-> op, depth |-> Len(stack),
                     n |-> nexec + 1, pre |-> Snapshot]

Record(op, ev) == RecordOut(op, ev, <<>>)

\* break cur + 1
AdvanceSkips ==
    /\ cur' = cur + 2
    /\ UNCHANGED <<cur_fn, stack, status>>
Advance ==
    /\ cur' = cur + 1
    /\ UNCHANGED <<cur_fn, stack, status>>

StoreConstStr ==
    /\ Dispatch("StoreConstStr")
    /\ strs' = [strs EXCEPT ![Cur.a] = Cur.s]
    /\ Advance
    /\ Record("StoreConstStr", "none")
    /\ UNCHANGED envVars
    /\ UNCHANGED <<build, instrs, ints, write_files, pending>>

StoreConstInt ==
    /\ Dispatch("StoreConstInt")
    /\ ints' = [ints EXCEPT ![Cur.a] = Cur.b]
    /\ Advance
    /\ Record("StoreConstInt", "none")
    /\ UNCHANGED envVars
    /\ UNCHANGED <<build, instrs, strs, write_files, pending>>

\* break lbl.0 as usize
JmpToSelf(lbl) == cur
JmpTo(lbl) == lbl

JmpIf ==
    /\ Dispatch("JmpIf")
    /\ cur' = IF ints[Cur.a] # 0 THEN JmpTo(Cur.b) ELSE cur + 1
    /\ Record("JmpIf", "none")
    /\ UNCHANGED envVars
    /\ UNCHANGED <<build, status, instrs, cur_fn, stack, ints, strs, write_files, pending>>

Jmp ==
    /\ Dispatch("Jmp")
    /\ cur' = JmpTo(Cur.a)
    /\ Record("Jmp", "none")
    /\ UNCHANGED envVars
    /\ UNCHANGED <<build, status, instrs, cur_fn, stack, ints, strs, write_files, pending>>

\* self.stack.push((cur_fn, Label(cur + 1)))
PushFrameBad(f, i) == Append(stack, <<f, i>>)
PushFrame(f, i) == Append(stack, <<f, i + 1>>)

\* Call allocates no frame: the callee runs on the registers of the caller
CalleeFreshRegs == [ints |-> [r \in DOMAIN ints |-> 0], strs |-> strs]
CalleeRegs == [ints |-> ints, strs |-> strs]

Call ==
    /\ Dispatch("Call")
    /\ stack' = PushFrame(cur_fn, cur)
    /\ cur_fn' = Cur.a
    /\ cur' = 0
    /\ ints' = CalleeRegs.ints
    /\ strs' = CalleeRegs.strs
    /\ pending' = Append(pending, <<cur_fn, cur>>)
    /\ Record("Call", "none")
    /\ UNCHANGED envVars
    /\ UNCHANGED <<build, status, instrs, write_files>>

\* self.stack.pop(): the frame run() resumes, and the frames that stay
PopFrame == [top |-> stack[Len(stack)], rest |-> SubSeq(stack, 1, Len(stack) - 1)]

Ret ==
    /\ Dispatch("Ret")
    /\ IF stack # <<>>
       THEN /\ cur_fn' = PopFrame.top[1]
            /\ cur' = PopFrame.top[2]
            /\ stack' = PopFrame.rest
            /\ pending' = SubSeq(pending, 1, Len(pending) - 1)
            /\ UNCHANGED status
       ELSE /\ status' = "ok"
            /\ UNCHANGED <<cur_fn, cur, stack, pending>>
    /\ Record("Ret", IF stack = <<>> THEN "Ret" ELSE "none")
    /\ UNCHANGED envVars
    /\ UNCHANGED <<build, instrs, ints, strs, write_files>>

\* Halt => break 'outer Ok(())
HaltBad ==
    IF stack # <<>>
    THEN /\ cur_fn' = PopFrame.top[1]
         /\ cur' = PopFrame.top[2]
         /\ stack' = PopFrame.rest
         /\ UNCHANGED status
    ELSE /\ status' = "ok"
         /\ UNCHANGED <<cur_fn, cur, stack>>
HaltEffect ==
    /\ status' = "ok"
    /\ UNCHANGED <<cur_fn, cur, stack>>

Halt ==
    /\ Dispatch("Halt")
    /\ HaltEffect
    /\ Record("Halt", "Halt")
    /\ UNCHANGED envVars
    /\ UNCHANGED <<build, instrs, ints, strs, write_files, pending>>

\* if let Err(_) = write { return Ok(()) }
WriteErrorBad ==
    /\ cur' = cur + 1
    /\ UNCHANGED <<status, cur_fn, stack, write_files>>
WriteError ==
    /\ status' = "ok"
    /\ UNCHANGED <<cur_fn, cur, stack, write_files>>

PrintStdout ==
    /\ Dispatch("PrintStdout")
    /\ \E ok \in BOOLEAN :
          /\ IF ok
             THEN /\ write_files' = write_str_stdout(write_files, strs[Cur.a])
                  /\ Advance
             ELSE WriteError
          /\ RecordOut("PrintStdout", IF ok THEN "none" ELSE "write",
                       IF ok THEN <<Out(TRUE, <<>>, strs[Cur.a], FALSE)>> ELSE <<>>)
    /\ UNCHANGED envVars
    /\ UNCHANGED <<build, instrs, ints, strs, pending>>

Print_ ==
    /\ Dispatch("Print")
    /\ \E ok \in BOOLEAN :
          /\ IF ok
             THEN /\ write_files' =
                        write_str(write_files, strs[Cur.b], strs[Cur.a], Cur.flag)
                  /\ Advance
             ELSE WriteError
          /\ RecordOut("Print", IF ok THEN "none" ELSE "write",
                       IF ok THEN <<Out(FALSE, strs[Cur.b], strs[Cur.a], FALSE)>>
                       ELSE <<>>)
    /\ UNCHANGED envVars
    /\ UNCHANGED <<build, instrs, ints, strs, pending>>

\* Interp::format_arg: Int, Float and Str arguments convert; any other type
\* is an error
ScalarAny(ty) == TRUE
Scalar(ty) == ty \in {"Str", "Int", "Float"}
format_arg(a) ==
    [ty |-> a[2], v |-> IF a[2] = "Int" THEN ints[a[1]] ELSE strs[a[1]]]

\* for a in args.iter() { scratch.push(self.format_arg(*a)?); }
ArgsConvert(args) == \A k \in 1..Len(args) : Scalar(args[k][2])
Scratch(args) == [k \in 1..Len(args) |-> format_arg(args[k])]

\* The `?` of a failed conversion or of a failed close: run returns the error.
ReturnErr(op, ev) ==
    /\ status' = "err"
    /\ Record(op, ev)
    /\ UNCHANGED <<cur_fn, cur, stack>>

Sprintf ==
    /\ Dispatch("Sprintf")
    /\ IF ~ArgsConvert(Cur.args)
       THEN /\ ReturnErr("Sprintf", "error")
            /\ UNCHANGED strs
       ELSE \E ok \in BOOLEAN :
               IF ok
               THEN /\ strs' = [strs EXCEPT ![Cur.a] =
                                    printf(strs[Cur.b], Scratch(Cur.args))]
                    /\ Advance
                    /\ Record("Sprintf", "none")
               ELSE \* runtime::printf::printf(..)? fails
                    /\ ReturnErr("Sprintf", "format")
                    /\ UNCHANGED strs
    /\ UNCHANGED envVars
    /\ UNCHANGED <<build, instrs, ints, write_files, pending>>

\* Printf's write: Some((out_path_reg, append)) names a sink, None is stdout
PrintfStdoutOnly(text) == write_str_stdout(write_files, text)
PrintfWrite(text) ==
    IF Cur.c = 1
    THEN write_str(write_files, strs[Cur.b], text, Cur.flag)
    ELSE write_str_stdout(write_files, text)

Printf ==
    /\ Dispatch("Printf")
    /\ IF ~ArgsConvert(Cur.args)
       THEN /\ ReturnErr("Printf", "error")
            /\ UNCHANGED write_files
       ELSE LET text == printf(strs[Cur.a], Scratch(Cur.args))
            IN  \E res \in {"ok", "write_err", "format_err"} :
                   IF res = "ok"
                   THEN /\ write_files' = PrintfWrite(text)
                        /\ Advance
                        /\ RecordOut("Printf", "none",
                                     <<Out(Cur.c # 1,
                                           IF Cur.c = 1 THEN strs[Cur.b] ELSE <<>>,
                                           text, FALSE)>>)
                   ELSE \* if res.is_err() { return Ok(()) }
                        /\ WriteError
                        /\ Record("Printf",
                                  IF res = "write_err" THEN "write" ELSE "format")
    /\ UNCHANGED envVars
    /\ UNCHANGED <<build, instrs, ints, strs, pending>>

\* Close(file): self.write_files.close(file)?; self.read_files.close(file);
Close ==
    /\ Dispatch("Close")
    /\ \E r \in close(write_files, strs[Cur.a]) :
          IF r.err
          THEN /\ ReturnErr("Close", "close")
               /\ UNCHANGED <<write_files, read_files>>
          ELSE /\ write_files' = r.wf
               /\ read_files' = close_read(read_files, strs[Cur.a])
               /\ Advance
               /\ RecordOut("Close", "none", <<Out(FALSE, strs[Cur.a], <<>>, TRUE)>>)
    /\ UNCHANGED <<rngVars, mapVars, maps_int_str, val_stacks, jit>>
    /\ UNCHANGED <<variables, line, file_regs, file_hist>>
    /\ UNCHANGED <<build, instrs, ints, strs, pending>>

-----------------------------------------------------------------------------
(* Int and usize (runtime::Int = i64, usize) at the model's width.         *)

RECURSIVE Pow2(_)
Pow2(n) == IF n = 0 THEN 1 ELSE 2 * Pow2(n - 1)

MinInt == 0 - Pow2(IntBits - 1)
MaxInt == Pow2(IntBits - 1) - 1
IntRange == MinInt..MaxInt

\* The value of the signed type congruent to x modulo 2^IntBits.
Wrap(x) == ((x - MinInt) % Pow2(IntBits)) + MinInt

\* `x as usize` of an Int x: the value modulo 2^IntBits, never a panic.
AsUsize(x) == x % Pow2(IntBits)

Max(x, y) == IF x >= y THEN x ELSE y
Min(x, y) == IF x <= y THEN x ELSE y

\* An Int operator `+`, `-`, `*` or unary `-` whose exact result is `exact`:
\* rustc compiles it with overflow checks when debug assertions are on (a
\* panic on overflow) and as wrapping arithmetic otherwise.  The result is
\* [panic, v].
RustArith(exact) ==
    IF exact \in IntRange THEN [panic |-> FALSE, v |-> exact]
    ELSE IF build = "debug" THEN [panic |-> TRUE, v |-> 0]
    ELSE [panic |-> FALSE, v |-> Wrap(exact)]

\* *self.get_mut(res) = <arithmetic>, then break cur + 1
StoreArith(res, exact) ==
    LET x == RustArith(exact)
    IN  IF x.panic
        THEN /\ status' = "panic"
             /\ UNCHANGED <<ints, cur_fn, cur, stack>>
        ELSE /\ ints' = [ints EXCEPT ![res] = x.v]
             /\ Advance

AddInt ==
    /\ Dispatch("AddInt")
    /\ StoreArith(Cur.a, ints[Cur.b] + ints[Cur.c])
    /\ Record("AddInt", "none")
    /\ UNCHANGED envVars
    /\ UNCHANGED <<build, instrs, strs, write_files, pending>>

MulInt ==
    /\ Dispatch("MulInt")
    /\ StoreArith(Cur.a, ints[Cur.b] * ints[Cur.c])
    /\ Record("MulInt", "none")
    /\ UNCHANGED envVars
    /\ UNCHANGED <<build, instrs, strs, write_files, pending>>

MinusInt ==
    /\ Dispatch("MinusInt")
    /\ StoreArith(Cur.a, ints[Cur.b] - ints[Cur.c])
    /\ Record("MinusInt", "none")
    /\ UNCHANGED envVars
    /\ UNCHANGED <<build, instrs, strs, write_files, pending>>

NegInt ==
    /\ Dispatch("NegInt")
    /\ StoreArith(Cur.a, 0 - ints[Cur.b])
    /\ Record("NegInt", "none")
    /\ UNCHANGED envVars
    /\ UNCHANGED <<build, instrs, strs, write_files, pending>>

\* The Int operator `%`: the remainder of the division truncated towards
\* zero, which has the sign of the dividend.  It panics in every build on a
\* divisor of 0 ("attempt to calculate the remainder with a divisor of
\* zero") and on the minimum Int by -1 ("attempt to calculate the remainder
\* with overflow").  The result is [panic, v].
Abs(x) == IF x < 0 THEN 0 - x ELSE x
RustRem(l, r) ==
    IF r = 0 \/ (l = MinInt /\ r = -1) THEN [panic |-> TRUE, v |-> 0]
    ELSE [panic |-> FALSE,
          v |-> IF l < 0 THEN 0 - (Abs(l) % Abs(r)) ELSE l % Abs(r)]

\* ModInt(res, l, r)
ModInt ==
    /\ Dispatch("ModInt")
    /\ LET x == RustRem(ints[Cur.b], ints[Cur.c])
       IN  IF x.panic
           THEN /\ status' = "panic"
                /\ UNCHANGED <<ints, cur_fn, cur, stack>>
           ELSE /\ ints' = [ints EXCEPT ![Cur.a] = x.v]
                /\ Advance
    /\ Record("ModInt", "none")
    /\ UNCHANGED envVars
    /\ UNCHANGED <<build, instrs, strs, write_files, pending>>

\* Str::slice(from, to) of the runtime, whose code is not among the modelled
\* files: the bytes at the 0-based positions from .. to-1.  For arguments that
\* are no range of the string (from > to, or to > len) the outcome is either a
\* panic or the range cut to the string.
slice(s, from, to) ==
    IF from <= to /\ to <= Len(s)
    THEN {[panic |-> FALSE, v |-> SubSeq(s, from + 1, to)]}
    ELSE {[panic |-> TRUE, v |-> <<>>],
          [panic |-> FALSE, v |-> SubSeq(s, from + 1, Min(to, Len(s)))]}

Substr ==
    /\ Dispatch("Substr")
    /\ LET base == strs[Cur.b]
           len  == Len(base)
           lm1  == RustArith(-1 + ints[Cur.c])
       IN  IF lm1.panic
           THEN /\ status' = "panic"
                /\ UNCHANGED <<strs, cur_fn, cur, stack>>
           ELSE LET l == AsUsize(Max(0, lm1.v))
                    r == AsUsize(Min(len, ints[Cur.d]))
                IN  \E res \in slice(base, l, r) :
                       IF res.panic
                       THEN /\ status' = "panic"
                            /\ UNCHANGED <<strs, cur_fn, cur, stack>>
                       ELSE /\ strs' = [strs EXCEPT ![Cur.a] = res.v]
                            /\ Advance
    /\ Record("Substr", "none")
    /\ UNCHANGED envVars
    /\ UNCHANGED <<build, instrs, ints, write_files, pending>>

-----------------------------------------------------------------------------
(* The random source: Interp::current_seed and Interp::rng, and the opcodes *)
(* Rand, Srand and ReseedRng.  Two interpreters, each running its own       *)
(* straight-line program: the instruction an interpreter executes next is   *)
(* any of the three, on any operand value.                                  *)

VMs == {1, 2}

\* `x as u64` of an Int and `x as Int` of a u64: the same bits.
AsU64(x) == x % Pow2(IntBits)
AsInt(u) == IF u > MaxInt THEN u - Pow2(IntBits) ELSE u

\* The seeds rand::thread_rng().gen() may deliver (any u64; two of them here).
EntropySeeds == {1, Pow2(IntBits) - 1}

\* The Int values the seed register of Srand holds.
SeedInputs == {MinInt, 3}

\* StdRng (rand crate): a deterministic generator.  Its state after
\* seed_from_u64(seed) is a function of seed alone, and each draw steps the
\* state and returns a value that is a function of the state.  The model's
\* generator is a full-period linear congruential one.
seed_from_u64(seed) == seed
RngStep(s) == (5 * s + 3) % Pow2(IntBits)
\* self.rng.gen_range(0.0, 1.0): the numerator of the Float drawn, over 2^IntBits
gen_range(s) == RngStep(s)

\* Rand(dst)
Rand(vm) ==
    /\ rng_hist[vm].n < MaxRngOps
    /\ rng' = [rng EXCEPT ![vm] = RngStep(@)]
    /\ rng_regs' = [rng_regs EXCEPT ![vm].float = gen_range(rng[vm])]
    /\ rng_hist' = [rng_hist EXCEPT ![vm].outs = Append(@, gen_range(rng[vm])),
                                     ![vm].op = "Rand", ![vm].n = @ + 1]
    /\ UNCHANGED current_seed
    /\ UNCHANGED rngFrame

\* Srand(res, seed), the seed register holding x
SrandKeepsGenerator(vm, x) ==
    /\ current_seed' = [current_seed EXCEPT ![vm] = AsU64(x)]
    /\ rng_regs' = [rng_regs EXCEPT ![vm].int = AsInt(current_seed[vm])]
    /\ UNCHANGED rng
SrandReturnsNewSeed(vm, x) ==
    /\ rng' = [rng EXCEPT ![vm] = seed_from_u64(AsU64(x))]
    /\ current_seed' = [current_seed EXCEPT ![vm] = AsU64(x)]
    /\ rng_regs' = [rng_regs EXCEPT ![vm].int = AsInt(AsU64(x))]
SrandEffect(vm, x) ==
    /\ rng' = [rng EXCEPT ![vm] = seed_from_u64(AsU64(x))]
    /\ current_seed' = [current_seed EXCEPT ![vm] = AsU64(x)]
    /\ rng_regs' = [rng_regs EXCEPT ![vm].int = AsInt(current_seed[vm])]

Srand(vm) ==
    /\ rng_hist[vm].n < MaxRngOps
    /\ \E x \in SeedInputs :
          /\ SrandEffect(vm, x)
          /\ rng_hist' = [rng_hist EXCEPT ![vm] =
                [@ EXCEPT !.op = "Srand", !.n = @ + 1, !.before = rng_hist[vm].active,
                          !.active = x, !.seeded = TRUE, !.k = x, !.outs = <<>>]]
    /\ UNCHANGED rngFrame

\* ReseedRng(res)
ReseedRng(vm) ==
    /\ rng_hist[vm].n < MaxRngOps
    /\ \E seed \in EntropySeeds :
          /\ rng' = [rng EXCEPT ![vm] = seed_from_u64(seed)]
          /\ current_seed' = [current_seed EXCEPT ![vm] = seed]
          /\ rng_regs' = [rng_regs EXCEPT ![vm].int = AsInt(current_seed[vm])]
          /\ rng_hist' = [rng_hist EXCEPT ![vm] =
                [@ EXCEPT !.op = "ReseedRng", !.n = @ + 1, !.before = rng_hist[vm].active,
                          !.active = AsInt(seed), !.seeded = FALSE, !.outs = <<>>]]
    /\ UNCHANGED rngFrame

\* Interp::new: let seed: u64 = rand::thread_rng().gen(); registers at Default
InitRng ==
    /\ current_seed \in [VMs -> EntropySeeds]
    /\ rng = [vm \in VMs |-> seed_from_u64(current_seed[vm])]
    /\ rng_regs = [vm \in VMs |-> [int |-> 0, float |-> 0]]
    /\ rng_hist = [vm \in VMs |->
                     [op |-> "none", n |-> 0, seed0 |-> current_seed[vm],
                      active |-> AsInt(current_seed[vm]), before |-> 0,
                      seeded |-> FALSE, k |-> 0, outs |-> <<>>]]

\* The random source of a specification that executes none of its opcodes.
RngUnused ==
    /\ current_seed = [vm \in VMs |-> 0]
    /\ rng = [vm \in VMs |-> seed_from_u64(0)]
    /\ rng_regs = [vm \in VMs |-> [int |-> 0, float |-> 0]]
    /\ rng_hist = [vm \in VMs |->
                     [op |-> "none", n |-> 0, seed0 |-> 0, active |-> 0, before |-> 0,
                      seeded |-> FALSE, k |-> 0, outs |-> <<>>]]

-----------------------------------------------------------------------------
(* The input side: Interp::read_files (runtime::FileRead), the file        *)
(* variables of Interp::vars, and the opcodes NextFile, NextLineStdin,     *)
(* NextLineStdinFused and StoreVarInt.  The reader's code is not part of   *)
(* the files modelled here; it is modelled from its description: a current *)
(* primary source and the queue of the files after it, a file being its    *)
(* name and the records it has left.                                       *)

File(name, lines) == [name |-> name, lines |-> lines]

F_a == <<97>>
F_b == <<98>>
F_c == <<97, 98>>
L_1 == <<97, 97>>
L_2 == <<98, 98>>

\* The command lines the interpreter is started on: the files, in order.
Inputs ==
    { << File(F_a, <<L_1, L_2>>) >>,
      << File(F_a, <<L_1>>), File(F_b, <<L_2>>) >>,
      << File(F_a, <<L_1, L_2>>), File(F_b, <<>>), File(F_c, <<L_1>>) >>,
      << File(F_a, <<>>), File(F_a, <<L_2>>) >> }

\* FileRead::new
NewFileRead(files) == [cur |-> Head(files), queue |-> Tail(files), named |-> <<>>]

\* FileRead::stdin_filename: the name of the current primary source
stdin_filename(rf) == rf.cur.name

\* FileRead::next_file: close the current primary source and advance to the
\* next queued file, if any
next_file(rf) ==
    IF rf.queue # <<>>
    THEN [rf EXCEPT !.cur = Head(rf.queue), !.queue = Tail(rf.queue)]
    ELSE [rf EXCEPT !.cur = File(rf.cur.name, <<>>), !.queue = <<>>]

\* RegexCache::get_line_stdin: the next record of the primary source, moving
\* on to the files after it when it is exhausted; `changed` tells whether the
\* source file changed.  At the end of the input the record is empty.
RECURSIVE get_line_stdin(_)
get_line_stdin(rf) ==
    IF rf.cur.lines # <<>>
    THEN [changed |-> FALSE, res |-> Head(rf.cur.lines),
          rf |-> [rf EXCEPT !.cur.lines = Tail(@)]]
    ELSE IF rf.queue = <<>>
    THEN [changed |-> FALSE, res |-> <<>>, rf |-> rf]
    ELSE [get_line_stdin(next_file(rf)) EXCEPT !.changed = TRUE]

\* Variables at Default: FS and OFS are one space, the counters are 0
NewVariables ==
    [nr |-> 0, fnr |-> 0, filename |-> <<>>, fs |-> <<32>>, ofs |-> <<32>>,
     nf |-> 0, rstart |-> 0, rlength |-> 0]

\* The line (runtime::Line): the record and the optional vector of its
\* fields, absent until the record is split.
NewLine(rec) == [rec |-> rec, split |-> FALSE, fields |-> <<>>]

\* Interp::reset_file_vars
reset_file_vars_stale(v, rf) == [v EXCEPT !.fnr = 0]
reset_file_vars(v, rf) == [v EXCEPT !.fnr = 0, !.filename = stdin_filename(rf)]

\* if changed { self.reset_file_vars() }
ResetAlways(changed, v, rf) == reset_file_vars(v, rf)
ResetIfChanged(changed, v, rf) == IF changed THEN reset_file_vars(v, rf) ELSE v

\* One input instruction, recorded with its operand (a path, a column, a
\* variable) and the state it started from.
FileRecordAt(op, arg) ==
    /\ status = "running"
    /\ file_hist.n < MaxFileOps
    /\ file_hist' = [op |-> op, n |-> file_hist.n + 1, pre |-> variables,
                     from |-> read_files, regs |-> file_regs, line |-> line,
                     arg |-> arg]

FileRecord(op) == FileRecordAt(op, 0)

\* NextFile()
NextFile ==
    /\ FileRecord("NextFile")
    /\ read_files' = next_file(read_files)
    /\ variables' = reset_file_vars(variables, read_files')
    /\ UNCHANGED <<line, file_regs>>
    /\ UNCHANGED fileFrame

\* NextLineStdin(dst)
NextLineStdin ==
    /\ FileRecord("NextLineStdin")
    /\ LET got == get_line_stdin(read_files) IN
          /\ read_files' = got.rf
          /\ variables' = ResetIfChanged(got.changed, variables, got.rf)
          /\ file_regs' = [file_regs EXCEPT !.str = got.res]
    /\ UNCHANGED line
    /\ UNCHANGED fileFrame

\* NextLineStdinFused()
NextLineStdinFused ==
    /\ FileRecord("NextLineStdinFused")
    /\ LET got == get_line_stdin(read_files) IN
          /\ read_files' = got.rf
          /\ line' = NewLine(got.res)
          /\ variables' = ResetIfChanged(got.changed, variables, got.rf)
    /\ UNCHANGED file_regs
    /\ UNCHANGED fileFrame

\* StoreVarInt(var, src) on NR, FNR and NF, the register src holding x: the
\* interpreter never counts records itself, the compiled program does.
StoreVarInt ==
    \E var \in {"nr", "fnr", "nf"}, x \in 0..MaxRecords :
       /\ FileRecordAt("StoreVarInt", var)
       /\ variables' = [variables EXCEPT ![var] = x]
       /\ UNCHANGED <<read_files, line, file_regs>>
       /\ UNCHANGED fileFrame

-----------------------------------------------------------------------------
(* Named input files (NextLine, ReadErr).  The reader keeps a table of the *)
(* named files it has opened; a file that is missing or cannot be read is  *)
(* never in it.                                                            *)

D_in     == <<105>>         \* "i": a file of two records
D_locked == <<108>>         \* "l": a file that exists and cannot be read
D_none   == <<110>>         \* "n": no such file

Disk ==
    [p \in {D_in, D_locked} |->
        IF p = D_in THEN [lines |-> <<L_1, L_2>>, readable |-> TRUE]
        ELSE [lines |-> <<L_1>>, readable |-> FALSE]]

ReadPaths == {D_in, D_locked, D_none}

CanOpen(p) == p \in DOMAIN Disk /\ Disk[p].readable

\* FileRead: the table after `path` was asked for
open_named(rf, path) ==
    IF path \in DOMAIN rf.named \/ ~CanOpen(path) THEN rf
    ELSE [rf EXCEPT !.named =
             [q \in (DOMAIN rf.named) \cup {path} |->
                 IF q = path THEN Disk[path].lines ELSE rf.named[q]]]

\* RegexCache::get_line(file, rs, read_files): the next record of the named
\* file, the empty string at its end, an error when it cannot be opened
get_line(rf, path) ==
    LET o == open_named(rf, path) IN
    IF path \notin DOMAIN o.named THEN [err |-> TRUE, res |-> <<>>, rf |-> o]
    ELSE IF o.named[path] = <<>> THEN [err |-> FALSE, res |-> <<>>, rf |-> o]
    ELSE [err |-> FALSE, res |-> Head(o.named[path]),
          rf  |-> [o EXCEPT !.named[path] = Tail(@)]]

\* FileRead::read_err(path): nonzero on a fatal error (missing file, IO
\* failure), 0 at a clean end of file or when lines remain
read_err(rf, path) ==
    LET o == open_named(rf, path) IN
    [err |-> FALSE, res |-> IF path \in DOMAIN o.named THEN 0 ELSE 1, rf |-> o]

\* What the input opcodes leave alone besides status
fileFrameS == <<build, dispVars, rngVars, mapVars, maps_int_str, val_stacks, jit>>

\* ReadErr(dst, file): let res = self.read_files.read_err(file)?
ReadErr ==
    \E file \in ReadPaths :
       /\ FileRecordAt("ReadErr", file)
       /\ LET got == read_err(read_files, file) IN
             /\ read_files' = got.rf
             /\ IF got.err
                THEN status' = "err" /\ UNCHANGED file_regs
                ELSE /\ file_regs' = [file_regs EXCEPT !.int = got.res]
                     /\ UNCHANGED status
       /\ UNCHANGED <<variables, line>>
       /\ UNCHANGED fileFrameS

\* NextLine's match: Ok(l) => dst = l, Err(_) => dst = "".into()
NextLineFails(got) ==
    [status |-> IF got.err THEN "err" ELSE "running",
     dst    |-> IF got.err THEN file_regs.str ELSE got.res]
NextLineResult(got) ==
    [status |-> "running", dst |-> IF got.err THEN <<>> ELSE got.res]

\* NextLine(dst, file)
NextLine ==
    \E file \in ReadPaths :
       /\ FileRecordAt("NextLine", file)
       /\ LET got == get_line(read_files, file) IN
             /\ read_files' = got.rf
             /\ status' = NextLineResult(got).status
             /\ file_regs' = [file_regs EXCEPT !.str = NextLineResult(got).dst]
       /\ UNCHANGED <<variables, line>>
       /\ UNCHANGED fileFrameS

-----------------------------------------------------------------------------
(* The line and its fields (runtime::Line): GetColumn, SetColumn, NF, and  *)
(* the separators in the variables.                                        *)

\* The pieces of s between the occurrences of the byte sep; none for the
\* empty string.
RECURSIVE PiecesFrom(_, _, _)
PiecesFrom(s, sep, piece) ==
    IF s = <<>> THEN <<piece>>
    ELSE IF Head(s) = sep THEN <<piece>> \o PiecesFrom(Tail(s), sep, <<>>)
    ELSE PiecesFrom(Tail(s), sep, Append(piece, Head(s)))

Pieces(s, sep) == IF s = <<>> THEN <<>> ELSE PiecesFrom(s, sep, <<>>)

R_1 == <<97, 44, 97, 32, 98>>       \* "a,a b"
R_2 == <<98, 32, 97, 32, 97>>       \* "b a a"
Separators == {<<32>>, <<44>>}      \* " " and ","

\* The fields of a record: the pieces between the occurrences of the
\* separator, none for the empty record
Fields(rec, fs) == Pieces(rec, fs[1])

RECURSIVE Join(_, _)
Join(fields, sep) ==
    IF fields = <<>> THEN <<>>
    ELSE IF Len(fields) = 1 THEN fields[1]
    ELSE fields[1] \o sep \o Join(Tail(fields), sep)

\* Line: split lazily, if needed, with the separator handed in
split_if_needed(l, fs) ==
    IF l.split THEN l ELSE [l EXCEPT !.split = TRUE, !.fields = Fields(l.rec, fs)]

\* Line::get_col(col, fs, ofs, regexes)
get_col(l, col, fs) ==
    IF col < 0 THEN [err |-> TRUE, res |-> <<>>, line |-> l]
    ELSE IF col = 0 THEN [err |-> FALSE, res |-> l.rec, line |-> l]
    ELSE LET s == split_if_needed(l, fs)
         IN  [err |-> FALSE, line |-> s,
              res |-> IF col > Len(s.fields) THEN <<>> ELSE s.fields[col]]

\* Line::nf(fs, regexes)
nf(l, fs) == [n |-> Len(split_if_needed(l, fs).fields), line |-> split_if_needed(l, fs)]

\* Line::set_col(col, v, ofs, regexes): column 0 replaces the record and
\* drops the fields; a column k >= 1 extends the fields with empty strings
\* as needed, writes the field and rebuilds the record with ofs
set_col(l, col, v, ofs) ==
    IF col < 0 THEN [err |-> TRUE, line |-> l]
    ELSE IF col = 0 THEN [err |-> FALSE, line |-> NewLine(v)]
    ELSE LET old == l.fields
             new == [k \in 1..Max(col, Len(old)) |->
                        IF k = col THEN v ELSE IF k <= Len(old) THEN old[k] ELSE <<>>]
         IN  [err |-> FALSE,
              line |-> [rec |-> Join(new, ofs), split |-> TRUE, fields |-> new]]

Columns == -1..2

\* let res = self.line.get_col(..)?; *self.get_mut(dst) = res
GetColumnIgnoresErr(got) == [status |-> "running", dst |-> got.res]
GetColumnResult(got) ==
    [status |-> IF got.err THEN "err" ELSE "running",
     dst    |-> IF got.err THEN file_regs.str ELSE got.res]

\* GetColumn(dst, src), the register src holding col
GetColumn ==
    \E col \in Columns :
       /\ FileRecordAt("GetColumn", col)
       /\ LET got == get_col(line, col, variables.fs) IN
             /\ line' = got.line
             /\ file_regs' = [file_regs EXCEPT !.str = GetColumnResult(got).dst]
             /\ status' = GetColumnResult(got).status
       /\ UNCHANGED <<read_files, variables>>
       /\ UNCHANGED fileFrameS

\* SetColumn(dst, src), the register dst holding col and src holding v
SetColumn ==
    \E col \in Columns, v \in {<<97>>, R_2} :
       /\ FileRecordAt("SetColumn", col)
       /\ LET got == set_col(line, col, v, variables.ofs) IN
             IF got.err
             THEN status' = "err" /\ UNCHANGED line
             ELSE line' = got.line /\ UNCHANGED status
       /\ UNCHANGED <<read_files, variables, file_regs>>
       /\ UNCHANGED fileFrameS

\* StoreVarStr(var, src) on FS, the register src holding s:
\* self.vars.store_str(*var, s)
StoreVarStr ==
    \E s \in Separators :
       /\ FileRecordAt("StoreVarStr", s)
       /\ variables' = [variables EXCEPT !.fs = s]
       /\ UNCHANGED <<read_files, line, file_regs, status>>
       /\ UNCHANGED fileFrameS

\* LoadVarInt(dst, var) on NF: self.vars.nf = self.line.nf(..)? as Int
LoadVarInt ==
    /\ FileRecordAt("LoadVarInt", 0)
    /\ line' = nf(line, variables.fs).line
    /\ variables' = [variables EXCEPT !.nf = nf(line, variables.fs).n]
    /\ file_regs' = [file_regs EXCEPT !.int = nf(line, variables.fs).n]
    /\ UNCHANGED <<read_files, status>>
    /\ UNCHANGED fileFrameS

\* Interp::new: vars and line at Default, read_files on the input
InitFile ==
    /\ \E files \in Inputs : read_files = NewFileRead(files)
    /\ variables = NewVariables
    /\ line = NewLine(<<>>)
    /\ file_regs = [str |-> <<>>, int |-> 0]
    /\ file_hist = [op |-> "none", n |-> 0, pre |-> variables, from |-> read_files,
                    regs |-> file_regs, line |-> line, arg |-> 0]

\* The input side of a specification that executes none of its opcodes.
FileUnused ==
    /\ read_files = NewFileRead(<< File(<<>>, <<>>) >>)
    /\ variables = NewVariables
    /\ line = NewLine(<<>>)
    /\ file_regs = [str |-> <<>>, int |-> 0]
    /\ file_hist = [op |-> "none", n |-> 0, pre |-> variables, from |-> read_files,
                    regs |-> file_regs, line |-> line, arg |-> 0]

-----------------------------------------------------------------------------
(* Maps and iterators (runtime::IntMap, runtime::Iter).  Their code is not *)
(* part of the files modelled here; they are modelled from their           *)
(* description: a map is insertion-ordered, the sequence of its entries    *)
(* (key, value) in insertion order; a register of maps holds a             *)
(* reference-counted handle, so that the maps live in a heap and a         *)
(* register holds the identity of one; an iterator is a snapshot, the keys *)
(* it has left.                                                            *)

Keys == {1, 2, 3}
Vals == {1, 2}
\* The (key, value) pairs the registers of a Store hold.
StoreInputs == {<<1, 1>>, <<1, 2>>, <<3, 1>>}
MapRegs == {0, 1}
IterRegs == {0}

\* As many identities as handles can exist at a time.
MapIds == 1..(Cardinality(MapRegs) + MaxMapStack)

Entry(k, v) == [k |-> k, v |-> v]
HasKey(m, k) == \E i \in 1..Len(m) : m[i].k = k
KeySet(m) == {m[i].k : i \in 1..Len(m)}

\* IntMap::get
get(m, k) ==
    IF HasKey(m, k)
    THEN [some |-> TRUE, v |-> m[CHOOSE i \in 1..Len(m) : m[i].k = k].v]
    ELSE [some |-> FALSE, v |-> 0]

\* IntMap::insert: a key the map holds keeps its place
insert(m, k, v) ==
    IF HasKey(m, k)
    THEN [i \in 1..Len(m) |-> IF m[i].k = k THEN Entry(k, v) ELSE m[i]]
    ELSE Append(m, Entry(k, v))

\* IntMap::delete
DropKey(e, k) == e.k # k
delete(m, k) == SelectSeq(m, LAMBDA e : DropKey(e, k))

\* IntMap::len
len(m) == Len(m)

\* IntMap::to_iter: the keys the map holds now, in insertion order
to_iter(m) == [i \in 1..Len(m) |-> m[i].k]

\* Iter::has_next, Iter::get_next
has_next(it) == it # <<>>
get_next(it) == [key |-> Head(it), rest |-> Tail(it)]

\* The identities some handle denotes: those in registers and on the stack.
Refs(m) == {m.regs[r] : r \in MapRegs} \cup {m.stack[i] : i \in 1..Len(m.stack)}

\* Dropping the last handle on a map frees it.
Collect(h, m) == [id \in MapIds |-> IF id \in Refs(m) THEN h[id] ELSE <<>>]

\* Default::default() for a map written to register dst: a map no handle
\* denotes once dst has given up the one it holds.
Fresh(m, dst) ==
    LET used == {m.regs[r] : r \in MapRegs \ {dst}}
                    \cup {m.stack[i] : i \in 1..Len(m.stack)}
    IN  CHOOSE id \in MapIds \ used : \A other \in MapIds \ used : id <= other

\* The map register arr denotes.
MapOf(arr) == heap[maps_int_int.regs[arr]]

IsPrefix(s, t) == Len(s) <= Len(t) /\ \A i \in 1..Len(s) : s[i] = t[i]

\* ---- history

\* Register dst is overwritten: it is linked to no register any more, and a
\* map pushed from it is no longer the map it denotes.
Unlinked(linked, dst) == {l \in linked : l.a # dst /\ l.b # dst}
Forgotten(origins, dst) ==
    [i \in 1..Len(origins) |-> IF origins[i] = dst THEN -1 ELSE origins[i]]

\* An iterator's history stops following a map that was freed (fresh is the
\* identity just given to a new map, 0 if none).
Followed(its, m, fresh) ==
    [r \in IterRegs |->
        IF its[r].src \in Refs(m) \ {fresh} THEN its[r] ELSE [its[r] EXCEPT !.src = 0]]

\* A Store or Delete through register arr on the map an iterator was created
\* over, through another register than the one the iterator was created from.
Mutated(its, arr) ==
    [r \in IterRegs |->
        IF its[r].src = maps_int_int.regs[arr] /\ its[r].arr # arr
        THEN [its[r] EXCEPT !.aliased = TRUE] ELSE its[r]]

\* What a Store or Delete through register arr adds to the history of the
\* registers linked by Mov or Push/Pop.
Shared(op, arr) ==
    {<<l.by, op>> : l \in {x \in map_hist.linked : x.a = arr \/ x.b = arr}}

\* One map instruction, recorded.
\* `vals` remembers, for every map a handle denotes and every key, the value
\* stored last and not deleted since (v stays after a Delete, some says
\* whether the key is there); `look` is what the Lookup executed last is to
\* find there, what the Contains (has) or Len (len) executed last is to store
\* by that history, the map and key of a Lookup that found the key missing
\* (at), and whether a Contains follows such a Lookup on its map and key
\* (again).  For an IterHasNext, `more` is what it is to store
\* by the history of its iterator and `again` whether it follows an
\* IterHasNext that stored 0 for that iterator.
NoVals == [k \in Keys |-> [some |-> FALSE, v |-> 0]]
NoLook == [on |-> FALSE, want |-> 0, gone |-> FALSE, at |-> <<>>, has |-> -1,
           len |-> -1, more |-> -1, again |-> FALSE]
Missing(id, k) == IF map_hist.vals[id][k].some THEN <<>> ELSE <<id, k>>

MapRecordV(linked, origins, shared, its, vals, look) ==
    /\ status = "running"
    /\ map_hist.n < MaxMapOps
    /\ map_hist' = [n |-> map_hist.n + 1, linked |-> linked, origins |-> origins,
                    shared |-> shared, it |-> its, look |-> look,
                    vals |-> [id \in MapIds |->
                                IF id \in Refs(maps_int_int) THEN vals[id]
                                ELSE NoVals]]

MapRecord(linked, origins, shared, its) ==
    MapRecordV(linked, origins, shared, its, map_hist.vals, NoLook)

\* StoreIntInt(arr, k, v), the registers k and v holding key and value
StoreIntInt ==
    \E arr \in MapRegs, kv \in StoreInputs :
        /\ MapRecordV(map_hist.linked, map_hist.origins,
                      map_hist.shared \cup Shared("Store", arr),
                      Mutated(map_hist.it, arr),
                      [map_hist.vals EXCEPT ![maps_int_int.regs[arr]][kv[1]] =
                          [some |-> TRUE, v |-> kv[2]]],
                      NoLook)
        /\ heap' = [heap EXCEPT ![maps_int_int.regs[arr]] = insert(@, kv[1], kv[2])]
        /\ UNCHANGED <<status, maps_int_int, iters_int, map_regs>>
        /\ UNCHANGED mapFrame

\* DeleteIntInt(arr, k)
DeleteReachesIterators(arr, k) ==
    /\ heap' = [heap EXCEPT ![maps_int_int.regs[arr]] = delete(@, k)]
    /\ iters_int' = [r \in IterRegs |->
                        IF map_hist.it[r].src = maps_int_int.regs[arr]
                        THEN SelectSeq(iters_int[r], LAMBDA x : x # k)
                        ELSE iters_int[r]]
DeleteEffect(arr, k) ==
    /\ heap' = [heap EXCEPT ![maps_int_int.regs[arr]] = delete(@, k)]
    /\ UNCHANGED iters_int

DeleteIntInt ==
    \E arr \in MapRegs, k \in Keys :
        /\ MapRecordV(map_hist.linked, map_hist.origins,
                      map_hist.shared \cup Shared("Delete", arr),
                      Mutated(map_hist.it, arr),
                      [map_hist.vals EXCEPT ![maps_int_int.regs[arr]][k].some = FALSE],
                      NoLook)
        /\ DeleteEffect(arr, k)
        /\ UNCHANGED <<status, maps_int_int, map_regs>>
        /\ UNCHANGED mapFrame

\* Option::unwrap_or(default)
unwrap_or_stale(opt, default) == IF opt.some THEN opt.v ELSE map_regs
unwrap_or(opt, default) == IF opt.some THEN opt.v ELSE default

\* arr = index(&self.maps_int_int, arr); arr.get(k): the map is read
LookupStoresDefault(arr, k) ==
    heap' = [heap EXCEPT ![maps_int_int.regs[arr]] =
                IF HasKey(@, k) THEN @ ELSE insert(@, k, 0)]
LookupReads(arr, k) == UNCHANGED heap

\* LookupIntInt(res, arr, k)
LookupIntInt ==
    \E arr \in MapRegs, k \in Keys :
        /\ LET e == map_hist.vals[maps_int_int.regs[arr]][k] IN
              MapRecordV(map_hist.linked, map_hist.origins, map_hist.shared,
                         map_hist.it, map_hist.vals,
                         [NoLook EXCEPT !.on = TRUE,
                                        !.want = IF e.some THEN e.v ELSE 0,
                                        !.gone = ~e.some /\ e.v # 0,
                                        !.at = Missing(maps_int_int.regs[arr], k)])
        /\ map_regs' = unwrap_or(get(MapOf(arr), k), 0)
        /\ LookupReads(arr, k)
        /\ UNCHANGED <<status, maps_int_int, iters_int>>
        /\ UNCHANGED mapFrame

\* ContainsIntInt(res, arr, k)
ContainsIntInt ==
    \E arr \in MapRegs, k \in Keys :
        /\ LET id == maps_int_int.regs[arr] IN
              MapRecordV(map_hist.linked, map_hist.origins, map_hist.shared,
                         map_hist.it, map_hist.vals,
                         [NoLook EXCEPT !.has = IF map_hist.vals[id][k].some THEN 1 ELSE 0,
                                        !.again = map_hist.look.at = <<id, k>>])
        /\ map_regs' = IF get(MapOf(arr), k).some THEN 1 ELSE 0
        /\ UNCHANGED <<status, heap, maps_int_int, iters_int>>
        /\ UNCHANGED mapFrame

\* LenIntInt(res, arr)
LenIntInt ==
    \E arr \in MapRegs :
        /\ LET id == maps_int_int.regs[arr] IN
              MapRecordV(map_hist.linked, map_hist.origins, map_hist.shared,
                         map_hist.it, map_hist.vals,
                         [NoLook EXCEPT
                              !.len = Cardinality({k \in Keys : map_hist.vals[id][k].some})])
        /\ map_regs' = len(MapOf(arr))
        /\ UNCHANGED <<status, heap, maps_int_int, iters_int>>
        /\ UNCHANGED mapFrame

\* MovMapIntInt(dst, src): self.get(src).clone() is a clone of the handle
MovMapCopies(dst, src) ==
    LET id == Fresh(maps_int_int, dst)
        m2 == [maps_int_int EXCEPT !.regs[dst] = id]
    IN  /\ maps_int_int' = m2
        /\ heap' = Collect([heap EXCEPT ![id] = MapOf(src)], m2)
MovMapEffect(dst, src) ==
    LET m2 == [maps_int_int EXCEPT !.regs[dst] = maps_int_int.regs[src]]
    IN  /\ maps_int_int' = m2
        /\ heap' = Collect(heap, m2)

MovMapIntInt ==
    \E dst \in MapRegs, src \in MapRegs :
        /\ MovMapEffect(dst, src)
        /\ MapRecord(IF dst = src THEN map_hist.linked
                     ELSE Unlinked(map_hist.linked, dst)
                              \cup {[a |-> dst, b |-> src, by |-> "Mov"]},
                     IF dst = src THEN map_hist.origins
                     ELSE Forgotten(map_hist.origins, dst),
                     map_hist.shared,
                     Followed(map_hist.it, maps_int_int', 0))
        /\ UNCHANGED <<status, iters_int, map_regs>>
        /\ UNCHANGED mapFrame

\* AllocMapIntInt(dst): *self.get_mut(dst) = Default::default(), a handle on
\* a new map in place of the handle dst held
AllocMapClears(dst) ==
    /\ maps_int_int' = maps_int_int
    /\ heap' = [heap EXCEPT ![maps_int_int.regs[dst]] = <<>>]
AllocMapEffect(dst) ==
    LET id == Fresh(maps_int_int, dst)
        m2 == [maps_int_int EXCEPT !.regs[dst] = id]
    IN  /\ maps_int_int' = m2
        /\ heap' = Collect([heap EXCEPT ![id] = <<>>], m2)

AllocMapIntInt ==
    \E dst \in MapRegs :
        LET id == Fresh(maps_int_int, dst)
            m2 == [maps_int_int EXCEPT !.regs[dst] = id]
        IN  /\ AllocMapEffect(dst)
            /\ MapRecordV(Unlinked(map_hist.linked, dst),
                          Forgotten(map_hist.origins, dst), map_hist.shared,
                          Followed(map_hist.it, m2, id),
                          [map_hist.vals EXCEPT ![id] = NoVals], NoLook)
            /\ UNCHANGED <<status, iters_int, map_regs>>
            /\ UNCHANGED mapFrame

\* PushIntInt(reg): push(), a clone of the handle
PushIntInt ==
    \E reg \in MapRegs :
        /\ Len(maps_int_int.stack) < MaxMapStack
        /\ maps_int_int' = [maps_int_int EXCEPT !.stack = Append(@, maps_int_int.regs[reg])]
        /\ MapRecord(map_hist.linked, Append(map_hist.origins, reg), map_hist.shared,
                     map_hist.it)
        /\ UNCHANGED <<status, heap, iters_int, map_regs>>
        /\ UNCHANGED mapFrame

\* PopIntInt(reg): pop() panics on the empty stack
PopIntInt ==
    \E reg \in MapRegs :
        IF maps_int_int.stack = <<>>
        THEN /\ MapRecord(map_hist.linked, map_hist.origins, map_hist.shared,
                          map_hist.it)
             /\ status' = "panic"
             /\ UNCHANGED <<heap, maps_int_int, iters_int, map_regs>>
             /\ UNCHANGED mapFrame
        ELSE LET n == Len(maps_int_int.stack)
                 from == map_hist.origins[n]
                 m2 == [regs |-> [maps_int_int.regs EXCEPT ![reg] = maps_int_int.stack[n]],
                        stack |-> SubSeq(maps_int_int.stack, 1, n - 1)]
                 kept == Unlinked(map_hist.linked, reg)
             IN  /\ maps_int_int' = m2
                 /\ heap' = Collect(heap, m2)
                 /\ MapRecord(IF from \in MapRegs \ {reg}
                              THEN kept \cup {[a |-> reg, b |-> from, by |-> "Pop"]}
                              ELSE kept,
                              Forgotten(SubSeq(map_hist.origins, 1, n - 1), reg),
                              map_hist.shared,
                              Followed(map_hist.it, m2, 0))
                 /\ UNCHANGED <<status, iters_int, map_regs>>
                 /\ UNCHANGED mapFrame

\* IterBeginIntInt(dst, arr)
IterBeginIntInt ==
    \E dst \in IterRegs, arr \in MapRegs :
        /\ iters_int' = [iters_int EXCEPT ![dst] = to_iter(MapOf(arr))]
        /\ MapRecord(map_hist.linked, map_hist.origins, map_hist.shared,
                     [map_hist.it EXCEPT ![dst] =
                         [begun |-> TRUE, expect |-> [i \in 1..Len(MapOf(arr)) |-> MapOf(arr)[i].k],
                          got |-> <<>>, src |-> maps_int_int.regs[arr], arr |-> arr,
                          aliased |-> FALSE, gonehit |-> FALSE, newhit |-> FALSE,
                          done |-> FALSE]])
        /\ UNCHANGED <<status, heap, maps_int_int, map_regs>>
        /\ UNCHANGED mapFrame

\* self.get(*iter).has_next() as Int
HasNextOfMap(iter) ==
    LET h == map_hist.it[iter] IN
    IF h.src # 0 /\ len(heap[h.src]) > Len(h.got) THEN 1 ELSE 0
HasNextResult(iter) == IF has_next(iters_int[iter]) THEN 1 ELSE 0

\* IterHasNextInt(dst, iter)
IterHasNextInt ==
    \E iter \in IterRegs :
        /\ LET h == map_hist.it[iter]
               left == Len(h.got) < Len(h.expect)
           IN  MapRecordV(map_hist.linked, map_hist.origins, map_hist.shared,
                          [map_hist.it EXCEPT ![iter].done = h.begun /\ ~left],
                          map_hist.vals,
                          [NoLook EXCEPT !.more = IF left THEN 1 ELSE 0,
                                         !.again = h.done])
        /\ map_regs' = HasNextResult(iter)
        /\ UNCHANGED <<status, heap, maps_int_int, iters_int>>
        /\ UNCHANGED mapFrame

\* IterGetNextInt(dst, iter).  get_next on an exhausted iterator is undefined;
\* the compiler emits it behind an IterHasNext test only.
IterGetNextInt ==
    \E iter \in IterRegs :
        /\ has_next(iters_int[iter])
        /\ LET nxt == get_next(iters_int[iter])
               h == map_hist.it[iter]
               live == IF h.src = 0 THEN {} ELSE KeySet(heap[h.src])
           IN  /\ iters_int' = [iters_int EXCEPT ![iter] = nxt.rest]
               /\ map_regs' = nxt.key
               /\ MapRecord(map_hist.linked, map_hist.origins, map_hist.shared,
                     [map_hist.it EXCEPT ![iter] =
                         [h EXCEPT !.got = Append(@, nxt.key),
                                   !.gonehit = @ \/ (h.src # 0 /\ nxt.key \notin live),
                                   !.newhit = @ \/ (\E k \in live :
                                                       \A i \in 1..Len(h.expect) : h.expect[i] # k)]])
        /\ UNCHANGED <<status, heap, maps_int_int>>
        /\ UNCHANGED mapFrame

\* The maps a program has built when the instructions modelled start: what
\* register 0 denotes, the other registers denoting maps of their own that
\* are empty (default_of).
InitialMaps ==
    { <<>>, <<Entry(1, 1)>>, <<Entry(2, 1), Entry(1, 2)>> }

NoIter ==
    [begun |-> FALSE, expect |-> <<>>, got |-> <<>>, src |-> 0, arr |-> 0,
     aliased |-> FALSE, gonehit |-> FALSE, newhit |-> FALSE, done |-> FALSE]

InitMap ==
    /\ \E m \in InitialMaps : heap = [id \in MapIds |-> IF id = 1 THEN m ELSE <<>>]
    /\ maps_int_int = [regs |-> [r \in MapRegs |-> r + 1], stack |-> <<>>]
    /\ iters_int = [r \in IterRegs |-> <<>>]
    /\ map_regs = 0
    /\ map_hist = [n |-> 0, linked |-> {}, origins |-> <<>>, shared |-> {},
                   it |-> [r \in IterRegs |-> NoIter], look |-> NoLook,
                   vals |-> [id \in MapIds |-> [k \in Keys |-> get(heap[id], k)]]]

\* Every register of maps denotes one map, as after MovMapIntInt(1, 0).
InitShared ==
    /\ \E m \in InitialMaps : heap = [id \in MapIds |-> IF id = 1 THEN m ELSE <<>>]
    /\ maps_int_int = [regs |-> [r \in MapRegs |-> 1], stack |-> <<>>]
    /\ iters_int = [r \in IterRegs |-> <<>>]
    /\ map_regs = 0
    /\ map_hist = [n |-> 0, linked |-> {[a |-> 1, b |-> 0, by |-> "Mov"]},
                   origins |-> <<>>, shared |-> {},
                   it |-> [r \in IterRegs |-> NoIter], look |-> NoLook,
                   vals |-> [id \in MapIds |-> [k \in Keys |-> get(heap[id], k)]]]

\* The maps of a specification that executes none of their opcodes.
MapUnused ==
    /\ heap = [id \in MapIds |-> <<>>]
    /\ maps_int_int = [regs |-> [r \in MapRegs |-> r + 1], stack |-> <<>>]
    /\ iters_int = [r \in IterRegs |-> <<>>]
    /\ map_regs = 0
    /\ map_hist = [n |-> 0, linked |-> {}, origins |-> <<>>, shared |-> {},
                   it |-> [r \in IterRegs |-> NoIter], look |-> NoLook,
                   vals |-> [id \in MapIds |-> [k \in Keys |-> get(heap[id], k)]]]

-----------------------------------------------------------------------------
(* SplitInt, on the bank of maps from Int to Str.  The regex cache and its *)
(* split are not part of the files modelled here; they are modelled from   *)
(* their description: the destination map is cleared and each piece is     *)
(* inserted under the keys 1..n.  A pattern is a regex of one literal      *)
(* byte, or "(", which does not compile.                                   *)

ISplitInt(flds, to_split, arr, pat) ==
    [Instr("SplitInt", flds, to_split, arr, <<>>, <<>>, FALSE) EXCEPT !.d = pat]

P_sep == <<98>>     \* "b"
P_bad == <<40>>     \* "("

\* RegexCache::split_regex_intmap(pat, s, arr): [err, map]
split_regex_intmap(pat, s, m) ==
    IF pat = P_bad THEN [err |-> TRUE, map |-> m]
    ELSE [err |-> FALSE,
          map |-> [i \in 1..Len(Pieces(s, pat[1])) |->
                      [k |-> i, v |-> Pieces(s, pat[1])[i]]]]

\* (arr.len() - old_len) as i64: a subtraction of usize values, which rustc
\* compiles with an overflow check when debug assertions are on, and the
\* cast of the wrapped difference otherwise.  The result is [panic, v].
LenDelta(new_len, old_len) ==
    IF new_len >= old_len THEN [panic |-> FALSE, v |-> new_len - old_len]
    ELSE IF build = "debug" THEN [panic |-> TRUE, v |-> 0]
    ELSE [panic |-> FALSE, v |-> AsInt(AsUsize(new_len - old_len))]

\* SplitInt(flds, to_split, arr, pat)
SplitInt ==
    /\ Dispatch("SplitInt")
    /\ LET old_len == Len(maps_int_str[Cur.c])
           got == split_regex_intmap(strs[Cur.d], strs[Cur.b], maps_int_str[Cur.c])
           res == LenDelta(Len(got.map), old_len)
       IN  /\ maps_int_str' = [maps_int_str EXCEPT ![Cur.c] = got.map]
           /\ IF got.err
              THEN /\ status' = "err"
                   /\ UNCHANGED <<ints, cur_fn, cur, stack>>
              ELSE IF res.panic
              THEN /\ status' = "panic"
                   /\ UNCHANGED <<ints, cur_fn, cur, stack>>
              ELSE /\ ints' = [ints EXCEPT ![Cur.a] = res.v]
                   /\ Advance
           /\ Record("SplitInt", IF got.err THEN "error" ELSE "none")
    /\ UNCHANGED <<rngVars, fileVars, mapVars, val_stacks, jit>>
    /\ UNCHANGED <<build, instrs, strs, write_files, pending>>

\* The destination map as the program's earlier instructions left it.
SplitMaps ==
    { <<>>,
      <<[k |-> 1, v |-> S_x]>>,
      <<[k |-> 1, v |-> S_x], [k |-> 2, v |-> <<>>], [k |-> 3, v |-> S_out]>> }

-----------------------------------------------------------------------------
(* The string opcodes: Concat, LenStr, SubstrIndex, Match, IsMatch.        *)

IConcat(res, l, r)      == Instr("Concat", res, l, r, <<>>, <<>>, FALSE)
ILenStr(res, s)         == Instr("LenStr", res, s, 0, <<>>, <<>>, FALSE)
ISubstrIndex(res, s, t) == Instr("SubstrIndex", res, s, t, <<>>, <<>>, FALSE)
IMatch(res, l, r)       == Instr("Match", res, l, r, <<>>, <<>>, FALSE)
IIsMatch(res, l, r)     == Instr("IsMatch", res, l, r, <<>>, <<>>, FALSE)
IMovStr(dst, src)       == Instr("MovStr", dst, src, 0, <<>>, <<>>, FALSE)
ISub(res, pat, s, in_s) ==
    [Instr("Sub", res, pat, s, <<>>, <<>>, FALSE) EXCEPT !.d = in_s]
IGSub(res, pat, s, in_s) ==
    [Instr("GSub", res, pat, s, <<>>, <<>>, FALSE) EXCEPT !.d = in_s]

\* str::find: the 0-based index of the first occurrence of t in s, scanning
\* from the left: [some, v]
RECURSIVE find_from(_, _, _)
find_from(s, t, i) ==
    IF i + Len(t) > Len(s) THEN [some |-> FALSE, v |-> 0]
    ELSE IF SubSeq(s, i + 1, i + Len(t)) = t THEN [some |-> TRUE, v |-> i]
    ELSE find_from(s, t, i + 1)

find(s, t) == find_from(s, t, 0)

\* s.find(t).map(|x| x + 1).unwrap_or(0)
ZeroBased(opt) == IF opt.some THEN opt.v ELSE 0
OneBased(opt) == IF opt.some THEN opt.v + 1 ELSE 0

\* SubstrIndex(res, s, t)
SubstrIndex ==
    /\ Dispatch("SubstrIndex")
    /\ ints' = [ints EXCEPT ![Cur.a] = AsInt(OneBased(find(strs[Cur.b], strs[Cur.c])))]
    /\ Advance
    /\ Record("SubstrIndex", "none")
    /\ UNCHANGED envVars
    /\ UNCHANGED <<build, instrs, strs, write_files, pending>>

\* Str::concat(l, r): a new string, the bytes of l followed by those of r
concat(l, r) == l \o r

\* Concat's operands: l = self.get(*l), r = self.get(*r)
ConcatSwapped == [l |-> strs[Cur.c], r |-> strs[Cur.b]]
ConcatOperands == [l |-> strs[Cur.b], r |-> strs[Cur.c]]

\* Concat(res, l, r)
Concat ==
    /\ Dispatch("Concat")
    /\ strs' = [strs EXCEPT ![Cur.a] = concat(ConcatOperands.l, ConcatOperands.r)]
    /\ Advance
    /\ Record("Concat", "none")
    /\ UNCHANGED envVars
    /\ UNCHANGED <<build, instrs, ints, write_files, pending>>

\* LenStr(res, s): self.get(s).len() as Int
LenStr ==
    /\ Dispatch("LenStr")
    /\ ints' = [ints EXCEPT ![Cur.a] = AsInt(Len(strs[Cur.b]))]
    /\ Advance
    /\ Record("LenStr", "none")
    /\ UNCHANGED envVars
    /\ UNCHANGED <<build, instrs, strs, write_files, pending>>

\* The patterns: a pattern of literal bytes matches where the bytes occur,
\* the empty pattern matches the empty string at the first position, P_bad
\* does not compile.
\* RegexCache::regex_match_loc(vars, pat, s): the 1-based start of the first
\* match or 0, and the match start and length variables: [err, v, vars]
regex_match_loc(vs, pat, s) ==
    IF pat = P_bad THEN [err |-> TRUE, v |-> 0, vars |-> vs]
    ELSE LET f == find(s, pat)
         IN  [err |-> FALSE, v |-> OneBased(f),
              vars |-> [vs EXCEPT !.rstart = OneBased(f),
                                  !.rlength = IF f.some THEN Len(pat) ELSE -1]]

\* RegexCache::is_regex_match(pat, s): [err, v]
is_regex_match(pat, s) ==
    IF pat = P_bad THEN [err |-> TRUE, v |-> FALSE]
    ELSE [err |-> FALSE, v |-> find(s, pat).some]

\* Match hands &mut self.vars to regex_match_loc: the variables after it are
\* the ones regex_match_loc leaves
MatchVarsOnHit(got) == IF got.v = 0 THEN variables ELSE got.vars
MatchVars(got) == got.vars

\* Match(res, l, r): l is the string, r the pattern
Match ==
    /\ Dispatch("Match")
    /\ LET got == regex_match_loc(variables, strs[Cur.c], strs[Cur.b]) IN
          IF got.err
          THEN /\ ReturnErr("Match", "error")
               /\ UNCHANGED <<ints, variables>>
          ELSE /\ ints' = [ints EXCEPT ![Cur.a] = AsInt(got.v)]
               /\ variables' = MatchVars(got)
               /\ Advance
               /\ Record("Match", "none")
    /\ UNCHANGED <<rngVars, mapVars, maps_int_str, val_stacks, jit>>
    /\ UNCHANGED <<read_files, line, file_regs, file_hist>>
    /\ UNCHANGED <<build, instrs, strs, write_files, pending>>

\* IsMatch's operands: l = index(&self.strs, l), pat = index(&self.strs, r)
IsMatchSwapped == [l |-> strs[Cur.c], pat |-> strs[Cur.b]]
IsMatchOperands == [l |-> strs[Cur.b], pat |-> strs[Cur.c]]

\* IsMatch(res, l, r): the bool as Int
IsMatch ==
    /\ Dispatch("IsMatch")
    /\ LET got == is_regex_match(IsMatchOperands.pat, IsMatchOperands.l) IN
          IF got.err
          THEN /\ ReturnErr("IsMatch", "error")
               /\ UNCHANGED ints
          ELSE /\ ints' = [ints EXCEPT ![Cur.a] = IF got.v THEN 1 ELSE 0]
               /\ Advance
               /\ Record("IsMatch", "none")
    /\ UNCHANGED envVars
    /\ UNCHANGED <<build, instrs, strs, write_files, pending>>

\* MovStr(dst, src): a clone of the source
MovStr ==
    /\ Dispatch("MovStr")
    /\ strs' = [strs EXCEPT ![Cur.a] = strs[Cur.b]]
    /\ Advance
    /\ Record("MovStr", "none")
    /\ UNCHANGED envVars
    /\ UNCHANGED <<build, instrs, ints, write_files, pending>>

\* Str::subst_first(re, repl) and Str::subst_all(re, repl) under
\* RegexCache::with_regex(pat, ..), for patterns of literal bytes that are
\* not empty and a pattern that does not compile: [err, str, n], a new
\* string and the number of substitutions made.
subst_first(in_s, pat, repl) ==
    IF pat = P_bad THEN [err |-> TRUE, str |-> in_s, n |-> 0]
    ELSE LET f == find(in_s, pat) IN
         IF f.some
         THEN [err |-> FALSE, n |-> 1,
               str |-> SubSeq(in_s, 1, f.v) \o repl
                          \o SubSeq(in_s, f.v + Len(pat) + 1, Len(in_s))]
         ELSE [err |-> FALSE, str |-> in_s, n |-> 0]

RECURSIVE subst_from(_, _, _)
subst_from(in_s, pat, repl) ==
    LET f == find(in_s, pat) IN
    IF f.some
    THEN LET rest == subst_from(SubSeq(in_s, f.v + Len(pat) + 1, Len(in_s)), pat, repl)
         IN  [str |-> SubSeq(in_s, 1, f.v) \o repl \o rest.str, n |-> rest.n + 1]
    ELSE [str |-> in_s, n |-> 0]

subst_all(in_s, pat, repl) ==
    IF pat = P_bad THEN [err |-> TRUE, str |-> in_s, n |-> 0]
    ELSE [err |-> FALSE, str |-> subst_from(in_s, pat, repl).str,
          n |-> subst_from(in_s, pat, repl).n]

\* *index_mut(&mut self.strs, in_s) = subbed: the register gets the new string
SubStoreShared(in_s, subbed) ==
    [r \in DOMAIN strs |-> IF strs[r] = strs[in_s] THEN subbed ELSE strs[r]]
SubStore(in_s, subbed) == [strs EXCEPT ![in_s] = subbed]

\* Sub(res, pat, s, in_s)
Sub ==
    /\ Dispatch("Sub")
    /\ LET got == subst_first(strs[Cur.d], strs[Cur.b], strs[Cur.c]) IN
          IF got.err
          THEN /\ ReturnErr("Sub", "error")
               /\ UNCHANGED <<ints, strs>>
          ELSE /\ strs' = SubStore(Cur.d, got.str)
               /\ ints' = [ints EXCEPT ![Cur.a] = got.n]
               /\ Advance
               /\ Record("Sub", "none")
    /\ UNCHANGED envVars
    /\ UNCHANGED <<build, instrs, write_files, pending>>

\* GSub(res, pat, s, in_s)
GSub ==
    /\ Dispatch("GSub")
    /\ LET got == subst_all(strs[Cur.d], strs[Cur.b], strs[Cur.c]) IN
          IF got.err
          THEN /\ ReturnErr("GSub", "error")
               /\ UNCHANGED <<ints, strs>>
          ELSE /\ strs' = SubStore(Cur.d, got.str)
               /\ ints' = [ints EXCEPT ![Cur.a] = AsInt(got.n)]
               /\ Advance
               /\ Record("GSub", "none")
    /\ UNCHANGED envVars
    /\ UNCHANGED <<build, instrs, write_files, pending>>

-----------------------------------------------------------------------------
(* The value stacks: Push* and Pop* of the Int and Str banks.              *)

\* push(): a clone of the register's value goes on top of the bank's stack
push(st, v) == Append(st, v)

\* pop(): the top of the bank's stack leaves it
pop_first(st) == [v |-> st[1], rest |-> SubSeq(st, 2, Len(st))]
pop(st) == [v |-> st[Len(st)], rest |-> SubSeq(st, 1, Len(st) - 1)]

StackStep ==
    /\ status = "running"
    /\ val_stacks.hist.n < MaxStackOps

StackRecord(op, reg) ==
    [n |-> val_stacks.hist.n + 1, op |-> op, reg |-> reg,
     pre |-> [ints |-> ints, strs |-> strs, int_stack |-> val_stacks.ints,
              str_stack |-> val_stacks.strs, pushed |-> val_stacks.pushed]]

stackFrame ==
    <<build, instrs, cur_fn, cur, stack, write_files, nexec, pending, last, term,
      rngVars, fileVars, mapVars, maps_int_str, jit>>

\* PushInt(reg)
PushInt ==
    \E reg \in DOMAIN ints :
        /\ StackStep
        /\ val_stacks' =
               [val_stacks EXCEPT !.ints = push(@, ints[reg]),
                                  !.pushed.ints = Append(@, ints[reg]),
                                  !.hist = StackRecord("PushInt", reg)]
        /\ UNCHANGED <<status, ints, strs>>
        /\ UNCHANGED stackFrame

\* PopInt(reg): pop() panics on the empty stack
PopInt ==
    \E reg \in DOMAIN ints :
        /\ StackStep
        /\ IF val_stacks.ints = <<>>
           THEN /\ status' = "panic"
                /\ val_stacks' = [val_stacks EXCEPT !.hist = StackRecord("PopInt", reg)]
                /\ UNCHANGED <<ints, strs>>
           ELSE /\ ints' = [ints EXCEPT ![reg] = pop(val_stacks.ints).v]
                /\ val_stacks' =
                       [val_stacks EXCEPT
                            !.ints = pop(@).rest,
                            !.pushed.ints = SubSeq(@, 1, Len(@) - 1),
                            !.hist = StackRecord("PopInt", reg)]
                /\ UNCHANGED <<status, strs>>
        /\ UNCHANGED stackFrame

\* PushStr(reg)
PushStr ==
    \E reg \in DOMAIN strs :
        /\ StackStep
        /\ val_stacks' =
               [val_stacks EXCEPT !.strs = push(@, strs[reg]),
                                  !.pushed.strs = Append(@, strs[reg]),
                                  !.hist = StackRecord("PushStr", reg)]
        /\ UNCHANGED <<status, ints, strs>>
        /\ UNCHANGED stackFrame

\* PopStr(reg): pop() panics on the empty stack
PopStr ==
    \E reg \in DOMAIN strs :
        /\ StackStep
        /\ IF val_stacks.strs = <<>>
           THEN /\ status' = "panic"
                /\ val_stacks' = [val_stacks EXCEPT !.hist = StackRecord("PopStr", reg)]
                /\ UNCHANGED <<ints, strs>>
           ELSE /\ strs' = [strs EXCEPT ![reg] = pop(val_stacks.strs).v]
                /\ val_stacks' =
                       [val_stacks EXCEPT
                            !.strs = pop(@).rest,
                            !.pushed.strs = SubSeq(@, 1, Len(@) - 1),
                            !.hist = StackRecord("PopStr", reg)]
                /\ UNCHANGED <<status, ints>>
        /\ UNCHANGED stackFrame

-----------------------------------------------------------------------------
(* The code llvm::View generates for one instruction that binds a Str or a *)
(* map register (src/src/llvm/mod.rs).  The generated calls run one at a   *)
(* time.  The intrinsics are not part of the files modelled here: ref_*    *)
(* adds one to the reference count of its operand, drop_* takes one off    *)
(* and frees the value at zero, load_var_* returns the value of the        *)
(* built-in variable with one reference taken for the caller.  A global    *)
(* register is a slot the function gets a pointer to (param); "g" is the   *)
(* destination, "g2" another global, "l" a local.                          *)

JitVals == {1, 2}
JitTypes == {"str", "map"}

JOp(op, arg) == [op |-> op, arg |-> arg]

\* View::is_global
is_global(reg) == reg \in {"g", "g2"}

\* View::get_local(reg) followed, for a Str, by the LLVMBuildLoad of MovStr:
\* the value of the register, no reference taken
get_local(reg) == <<JOp("load_src", reg)>>

\* View::bind_val(val, to), val a global
bind_val_global(ty) ==
    IF ty = "map"
    THEN <<JOp("load", "param"), JOp("drop", "prev"), JOp("ref", "to"),
           JOp("store", "param")>>
    ELSE <<JOp("drop", "param"), JOp("store", "param"), JOp("ref", "param")>>

\* View::bind_val(val, to), val a local that is not bound yet
bind_val_local(ty) ==
    IF ty = "map"
    THEN <<JOp("ref", "to"), JOp("insert", "l")>>
    ELSE <<JOp("alloca", "l"), JOp("ref", "l")>>

bind_val(val, ty) ==
    IF is_global(val) THEN bind_val_global(ty) ELSE bind_val_local(ty)

\* View::drop_reg(reg), reg a global
drop_reg(ty) ==
    IF ty = "map" THEN <<JOp("load", "param"), JOp("drop", "prev")>>
    ELSE <<JOp("drop", "param")>>

JMov(dst, src) == [op |-> "Mov", dst |-> dst, src |-> src]
JLoadVar(dst)  == [op |-> "LoadVar", dst |-> dst, src |-> "var"]

\* View::gen_ll_inst: MovStr / MovMap*, LoadVarStr / LoadVarIntMap
gen_ll_inst(inst, ty) ==
    IF inst.op = "Mov"
    THEN get_local(inst.src) \o bind_val(inst.dst, ty)
    ELSE <<JOp("load_var", "var")>> \o bind_val(inst.dst, ty)
             \o (IF is_global(inst.dst) THEN drop_reg(ty) ELSE <<>>)

\* What holds a value: the registers and the built-in variable.
JitHolders(v) ==
    {x \in DOMAIN jit.glob : jit.glob[x] = v}
        \cup (IF jit.loc = v THEN {"l"} ELSE {})
        \cup (IF jit.var = v THEN {"var"} ELSE {})

\* The instruction of the generated code that runs next.
JitNext(op) ==
    /\ jit.state = "running"
    /\ jit.code # <<>>
    /\ Head(jit.code).op = op

JitStep(j) == jit' = [j EXCEPT !.code = Tail(jit.code)]

jitFrame == <<build, status, dispVars, rngVars, fileVars, mapVars, maps_int_str, val_stacks>>

\* the operand of a ref_* or drop_* call
JitOperand(arg) ==
    CASE arg = "param" -> jit.glob["g"]
      [] arg = "prev"  -> jit.prev
      [] arg = "to"    -> jit.to
      [] arg = "l"     -> jit.loc

\* LLVMBuildLoad of the source register of a Mov
ExecLoadSrc ==
    /\ JitNext("load_src")
    /\ LET src == Head(jit.code).arg IN
          JitStep([jit EXCEPT !.to = IF src = "l" THEN jit.loc ELSE jit.glob[src]])
    /\ UNCHANGED jitFrame

\* call load_var_str / load_var_intmap
ExecLoadVar ==
    /\ JitNext("load_var")
    /\ JitStep([jit EXCEPT !.to = jit.var, !.rc[jit.var] = @ + 1])
    /\ UNCHANGED jitFrame

\* LLVMBuildLoad(param): the map the global holds
ExecLoad ==
    /\ JitNext("load")
    /\ JitStep([jit EXCEPT !.prev = jit.glob["g"]])
    /\ UNCHANGED jitFrame

\* call drop_str / drop_map.  On a value that was freed the call reads freed
\* memory: the function goes on or the process dies.
ExecDrop ==
    /\ JitNext("drop")
    /\ LET v == JitOperand(Head(jit.code).arg) IN
          IF jit.rc[v] = 0
          THEN \/ JitStep(jit)
               \/ JitStep([jit EXCEPT !.state = "crashed"])
          ELSE JitStep([jit EXCEPT !.rc[v] = @ - 1])
    /\ UNCHANGED jitFrame

\* call ref_str / ref_map.  On a value that was freed the call writes freed
\* memory: the function goes on or the process dies.
ExecRef ==
    /\ JitNext("ref")
    /\ LET v == JitOperand(Head(jit.code).arg) IN
          IF jit.rc[v] = 0
          THEN \/ JitStep([jit EXCEPT !.rc[v] = 1])
               \/ JitStep([jit EXCEPT !.state = "crashed"])
          ELSE JitStep([jit EXCEPT !.rc[v] = @ + 1])
    /\ UNCHANGED jitFrame

\* LLVMBuildStore(new_global, param)
ExecStore ==
    /\ JitNext("store")
    /\ JitStep([jit EXCEPT !.glob["g"] = jit.to, !.to = 0])
    /\ UNCHANGED jitFrame

\* LLVMBuildAlloca and LLVMBuildStore(to, loc): the local Str gets its slot
ExecAlloca ==
    /\ JitNext("alloca")
    /\ JitStep([jit EXCEPT !.loc = jit.to, !.to = 0])
    /\ UNCHANGED jitFrame

\* self.f.locals.insert(val, to): the local map is the value bound
ExecInsert ==
    /\ JitNext("insert")
    /\ JitStep([jit EXCEPT !.loc = jit.to, !.to = 0])
    /\ UNCHANGED jitFrame

\* The instructions: a Mov into the global g from g itself, from another
\* global or from a local, and a LoadVar into g or into a local.
JitInstrs ==
    {JMov("g", "g"), JMov("g", "g2"), JMov("g", "l"), JLoadVar("g"), JLoadVar("l")}

\* Function entry: every holder of a value has one reference on it; the local
\* is bound only where the instruction reads it.
InitJit ==
    \E ty \in JitTypes, inst \in JitInstrs, a, b, c, d \in JitVals :
        LET glob == [x \in {"g", "g2"} |-> IF x = "g" THEN a ELSE b]
            loc == IF inst.src = "l" THEN c ELSE 0
            held(v) == Cardinality({x \in {"g", "g2"} : glob[x] = v})
                          + (IF loc = v THEN 1 ELSE 0) + (IF d = v THEN 1 ELSE 0)
        IN  jit = [ty |-> ty, inst |-> inst, code |-> gen_ll_inst(inst, ty),
                   glob |-> glob, loc |-> loc, var |-> d,
                   rc |-> [v \in JitVals |-> held(v)], to |-> 0, prev |-> 0,
                   state |-> "running"]

-----------------------------------------------------------------------------
(* Interp::new, then run()'s first lines.                                  *)

RegsOneMore(n, v) == [r \in 0..n |-> v]
Regs(n, v) == [r \in 0..(n - 1) |-> v]

\* Storage::stack of every bank: vec![] (default_of)
NoStacks ==
    [ints |-> <<>>, strs |-> <<>>,
     pushed |-> [ints |-> <<>>, strs |-> <<>>],
     hist |-> [n |-> 0, op |-> "none", reg |-> 0,
               pre |-> [ints |-> <<>>, strs |-> <<>>, int_stack |-> <<>>,
                        str_stack |-> <<>>, pushed |-> [ints |-> <<>>, strs |-> <<>>]]]]

\* No generated code.
NoJit ==
    [ty |-> "none", inst |-> [op |-> "none", dst |-> "none", src |-> "none"],
     code |-> <<>>, glob |-> <<>>, loc |-> 0, var |-> 0, rc |-> <<>>, to |-> 0,
     prev |-> 0, state |-> "done"]

\* A register file holding the given values, register 0 first.
RegsOf(vals) == [r \in 0..(Len(vals) - 1) |-> vals[r + 1]]

Init ==
    /\ build \in {"debug", "release"}
    /\ status = "running"
    /\ \E p \in Programs :
          /\ instrs = p.funcs
          /\ cur_fn = p.main
          /\ ints = Regs(p.nints, 0)
          /\ strs = Regs(p.nstrs, <<>>)
    /\ cur = 0
    /\ stack = <<>>
    /\ write_files = NewFileWrite
    /\ maps_int_str = RegsOf(<< <<>> >>)
    /\ val_stacks = NoStacks
    /\ jit = NoJit
    /\ nexec = 0
    /\ pending = <<>>
    /\ last = [op |-> "none", fn |-> cur_fn, at |-> 0, depth |-> 0, sites |-> <<>>,
               n |-> 0, pre |-> Snapshot, log |-> <<>>]
    /\ term = [seen |-> FALSE, why |-> "none", op |-> "none", depth |-> 0, n |-> 0,
               pre |-> Snapshot]
    /\ RngUnused
    /\ FileUnused
    /\ MapUnused

Next ==
    \/ StoreConstStr
    \/ StoreConstInt
    \/ JmpIf
    \/ Jmp
    \/ Call
    \/ Ret
    \/ Halt
    \/ PrintStdout
    \/ Print_
    \/ Printf
    \/ Sprintf
    \/ Close

vars == <<build, status, dispVars, envVars>>

Spec == Init /\ [][Next]_vars

\* The dispatch loop over the programs without a backward jump and without
\* recursion.  run() is a loop that waits for nothing but the reads and
\* writes it makes, each of which is one step here and returns: as long as
\* an instruction is left to execute, it is executed.
InitLive ==
    /\ build \in {"debug", "release"}
    /\ status = "running"
    /\ \E p \in LivePrograms :
          /\ instrs = p.funcs
          /\ cur_fn = p.main
          /\ ints = Regs(p.nints, 0)
          /\ strs = Regs(p.nstrs, <<>>)
    /\ cur = 0
    /\ stack = <<>>
    /\ write_files = NewFileWrite
    /\ maps_int_str = RegsOf(<< <<>> >>)
    /\ val_stacks = NoStacks
    /\ jit = NoJit
    /\ nexec = 0
    /\ pending = <<>>
    /\ last = [op |-> "none", fn |-> cur_fn, at |-> 0, depth |-> 0, sites |-> <<>>,
               n |-> 0, pre |-> Snapshot, log |-> <<>>]
    /\ term = [seen |-> FALSE, why |-> "none", op |-> "none", depth |-> 0, n |-> 0,
               pre |-> Snapshot]
    /\ RngUnused
    /\ FileUnused
    /\ MapUnused

SpecLive == InitLive /\ [][Next]_vars /\ WF_vars(Next)

-----------------------------------------------------------------------------
(* SpecPure: one arithmetic instruction or one Substr, then Halt, on       *)
(* operands drawn from the whole Int range and from the strings over Bytes *)
(* of at most MaxStrLen bytes.                                             *)

RECURSIVE StringsOfLen(_)
StringsOfLen(n) ==
    IF n = 0 THEN {<<>>}
    ELSE {Append(s, b) : s \in StringsOfLen(n - 1), b \in Bytes}

Strings == UNION {StringsOfLen(n) : n \in 0..MaxStrLen}

ArithInstrs ==
    {IAddInt(2, 0, 1), IMulInt(2, 0, 1), IMinusInt(2, 0, 1), INegInt(2, 0),
     IModInt(2, 0, 1)}

InitPure ==
    /\ build \in {"debug", "release"}
    /\ status = "running"
    /\ cur_fn = 0
    /\ cur = 0
    /\ stack = <<>>
    /\ \/ /\ \E ins \in ArithInstrs : instrs = << <<ins, IHalt>> >>
          /\ \E l, r \in IntRange : ints = RegsOf(<<l, r, 0>>)
          /\ strs = RegsOf(<<>>)
       \/ /\ instrs = << <<ISubstr(1, 0, 0, 1), IHalt>> >>
          /\ \E l, r \in IntRange : ints = RegsOf(<<l, r>>)
          /\ \E s \in Strings : strs = RegsOf(<<s, <<>> >>)
    /\ write_files = NewFileWrite
    /\ maps_int_str = RegsOf(<< <<>> >>)
    /\ val_stacks = NoStacks
    /\ jit = NoJit
    /\ nexec = 0
    /\ pending = <<>>
    /\ last = [op |-> "none", fn |-> cur_fn, at |-> 0, depth |-> 0, sites |-> <<>>,
               n |-> 0, pre |-> Snapshot, log |-> <<>>]
    /\ term = [seen |-> FALSE, why |-> "none", op |-> "none", depth |-> 0, n |-> 0,
               pre |-> Snapshot]
    /\ RngUnused
    /\ FileUnused
    /\ MapUnused

NextPure ==
    \/ AddInt
    \/ MulInt
    \/ MinusInt
    \/ NegInt
    \/ ModInt
    \/ Substr
    \/ Halt

SpecPure == InitPure /\ [][NextPure]_vars

-----------------------------------------------------------------------------
(* SpecSplit: one SplitInt, then Halt, on every string of Strings, on both *)
(* patterns and on each of the SplitMaps as the destination.               *)

InitSplit ==
    /\ build \in {"debug", "release"}
    /\ status = "running"
    /\ cur_fn = 0
    /\ cur = 0
    /\ stack = <<>>
    /\ instrs = << <<ISplitInt(0, 0, 0, 1), IHalt>> >>
    /\ ints = RegsOf(<<0>>)
    /\ \E s \in Strings, pat \in {P_sep, P_bad} : strs = RegsOf(<<s, pat>>)
    /\ \E m \in SplitMaps : maps_int_str = RegsOf(<<m>>)
    /\ val_stacks = NoStacks
    /\ jit = NoJit
    /\ write_files = NewFileWrite
    /\ nexec = 0
    /\ pending = <<>>
    /\ last = [op |-> "none", fn |-> cur_fn, at |-> 0, depth |-> 0, sites |-> <<>>,
               n |-> 0, pre |-> Snapshot, log |-> <<>>]
    /\ term = [seen |-> FALSE, why |-> "none", op |-> "none", depth |-> 0, n |-> 0,
               pre |-> Snapshot]
    /\ RngUnused
    /\ FileUnused
    /\ MapUnused

NextSplit ==
    \/ SplitInt
    \/ Halt

SpecSplit == InitSplit /\ [][NextSplit]_vars

-----------------------------------------------------------------------------
(* SpecRng: two interpreters, each executing Rand, Srand and ReseedRng in  *)
(* any order.                                                              *)

\* The dispatch loop of a specification that runs no program; the opcodes of
\* these specifications do the same in every build.
DispatchIdle ==
    /\ build = "debug"
    /\ status = "running"
    /\ instrs = << <<IHalt>> >>
    /\ cur_fn = 0
    /\ cur = 0
    /\ stack = <<>>
    /\ ints = RegsOf(<<>>)
    /\ strs = RegsOf(<<>>)
    /\ write_files = NewFileWrite
    /\ maps_int_str = RegsOf(<< <<>> >>)
    /\ val_stacks = NoStacks
    /\ nexec = 0
    /\ pending = <<>>
    /\ last = [op |-> "none", fn |-> cur_fn, at |-> 0, depth |-> 0, sites |-> <<>>,
               n |-> 0, pre |-> Snapshot, log |-> <<>>]
    /\ term = [seen |-> FALSE, why |-> "none", op |-> "none", depth |-> 0, n |-> 0,
               pre |-> Snapshot]

DispatchUnused ==
    /\ DispatchIdle
    /\ jit = NoJit

InitRngSpec ==
    /\ DispatchUnused
    /\ InitRng
    /\ FileUnused
    /\ MapUnused

NextRng ==
    \E vm \in VMs :
        \/ Rand(vm)
        \/ Srand(vm)
        \/ ReseedRng(vm)

SpecRng == InitRngSpec /\ [][NextRng]_vars

-----------------------------------------------------------------------------
(* SpecFile: the input opcodes in any order, on each of the Inputs.        *)

InitFileSpec ==
    /\ DispatchUnused
    /\ RngUnused
    /\ InitFile
    /\ MapUnused

NextFileOps ==
    \/ NextFile
    \/ NextLineStdin
    \/ NextLineStdinFused
    \/ StoreVarInt

SpecFile == InitFileSpec /\ [][NextFileOps]_vars

-----------------------------------------------------------------------------
(* SpecStr: the string opcodes on all strings up to MaxStrLen bytes, the   *)
(* destination registers holding other values before.                      *)

ProgSubstrIndex == << <<ISubstrIndex(0, 0, 1), IHalt>> >>

\* Concat, the two lengths, then Substr(., 1, LenStr(a))
ProgConcat ==
    << <<IConcat(2, 0, 1), ILenStr(0, 0), ILenStr(1, 2), ISubstr(3, 2, 2, 0),
         IHalt>> >>

\* Match and IsMatch on the same operands
ProgMatch == << <<IMatch(0, 0, 1), IIsMatch(1, 0, 1), IHalt>> >>

\* Match and IsMatch twice, on two strings and one pattern
ProgMatchTwice ==
    << <<IMatch(0, 0, 1), IIsMatch(1, 0, 1), IMatch(0, 2, 1), IIsMatch(1, 2, 1), IHalt>> >>

\* the strings of at most one byte
ShortStrings == {s \in Strings : Len(s) <= 1}

InitStrSpec ==
    /\ build \in {"debug", "release"}
    /\ status = "running"
    /\ cur_fn = 0
    /\ cur = 0
    /\ stack = <<>>
    /\ \/ /\ instrs = ProgSubstrIndex
          /\ ints = RegsOf(<<MaxInt>>)
          /\ \E s, u \in Strings : strs = RegsOf(<<s, u>>)
       \/ /\ instrs = ProgConcat
          /\ ints = RegsOf(<<MaxInt, MaxInt, 1>>)
          /\ \E a, b \in Strings : strs = RegsOf(<<a, b, S_x, S_x>>)
       \/ /\ instrs = ProgMatch
          /\ ints = RegsOf(<<MaxInt, MaxInt>>)
          /\ \E s \in Strings, pat \in Strings \cup {P_bad} : strs = RegsOf(<<s, pat>>)
       \/ /\ instrs = ProgMatchTwice
          /\ ints = RegsOf(<<MaxInt, MaxInt>>)
          /\ \E s \in Strings, pat \in Strings \cup {P_bad}, u \in ShortStrings :
                strs = RegsOf(<<s, pat, u>>)
    /\ write_files = NewFileWrite
    /\ maps_int_str = RegsOf(<< <<>> >>)
    /\ val_stacks = NoStacks
    /\ jit = NoJit
    /\ nexec = 0
    /\ pending = <<>>
    /\ last = [op |-> "none", fn |-> cur_fn, at |-> 0, depth |-> 0, sites |-> <<>>,
               n |-> 0, pre |-> Snapshot, log |-> <<>>]
    /\ term = [seen |-> FALSE, why |-> "none", op |-> "none", depth |-> 0, n |-> 0,
               pre |-> Snapshot]
    /\ RngUnused
    /\ FileUnused
    /\ MapUnused

NextStr ==
    \/ SubstrIndex
    \/ Concat
    \/ LenStr
    \/ Substr
    \/ Match
    \/ IsMatch
    \/ Halt

SpecStr == InitStrSpec /\ [][NextStr]_vars

\* Two Int and two Str registers holding different values, empty value stacks.
InitStackSpec ==
    /\ build \in {"debug", "release"}
    /\ status = "running"
    /\ instrs = << <<IHalt>> >>
    /\ cur_fn = 0
    /\ cur = 0
    /\ stack = <<>>
    /\ ints = RegsOf(<<1, 2>>)
    /\ strs = RegsOf(<< <<97>>, <<98>> >>)
    /\ write_files = NewFileWrite
    /\ maps_int_str = RegsOf(<< <<>> >>)
    /\ val_stacks = NoStacks
    /\ jit = NoJit
    /\ nexec = 0
    /\ pending = <<>>
    /\ last = [op |-> "none", fn |-> cur_fn, at |-> 0, depth |-> 0, sites |-> <<>>,
               n |-> 0, pre |-> Snapshot, log |-> <<>>]
    /\ term = [seen |-> FALSE, why |-> "none", op |-> "none", depth |-> 0, n |-> 0,
               pre |-> Snapshot]
    /\ RngUnused
    /\ FileUnused
    /\ MapUnused

NextStack ==
    \/ PushInt
    \/ PopInt
    \/ PushStr
    \/ PopStr

SpecStack == InitStackSpec /\ [][NextStack]_vars

\* The string of register 2 copied to register 3, then Sub on the one and
\* GSub on the other
ProgSub == << <<IMovStr(3, 2), ISub(0, 0, 1, 2), IGSub(1, 0, 1, 3), IHalt>> >>

\* the patterns and the replacements of ProgSub
SubPatterns == {<<97>>, <<97, 98>>, <<98, 98>>, P_bad}
SubReplacements == {<<>>, <<98>>, <<97, 97>>}

\* Register 2 holds a string that a slot of the value stack (after PushStr)
\* and an entry of a map (after a Store) hold too.
InitSubSpec ==
    /\ build \in {"debug", "release"}
    /\ status = "running"
    /\ instrs = ProgSub
    /\ cur_fn = 0
    /\ cur = 0
    /\ stack = <<>>
    /\ ints = RegsOf(<<MaxInt, MaxInt>>)
    /\ write_files = NewFileWrite
    /\ \E pat \in SubPatterns, repl \in SubReplacements, in_s \in Strings :
          /\ strs = RegsOf(<<pat, repl, in_s, <<>> >>)
          /\ maps_int_str = RegsOf(<< <<[k |-> 1, v |-> in_s]>> >>)
          /\ val_stacks = [NoStacks EXCEPT !.strs = <<in_s>>, !.pushed.strs = <<in_s>>]
    /\ jit = NoJit
    /\ nexec = 0
    /\ pending = <<>>
    /\ last = [op |-> "none", fn |-> cur_fn, at |-> 0, depth |-> 0, sites |-> <<>>,
               n |-> 0, pre |-> Snapshot, log |-> <<>>]
    /\ term = [seen |-> FALSE, why |-> "none", op |-> "none", depth |-> 0, n |-> 0,
               pre |-> Snapshot]
    /\ RngUnused
    /\ FileUnused
    /\ MapUnused

NextSub ==
    \/ MovStr
    \/ Sub
    \/ GSub
    \/ Halt

SpecSub == InitSubSpec /\ [][NextSub]_vars

InitJitSpec ==
    /\ DispatchIdle
    /\ RngUnused
    /\ FileUnused
    /\ MapUnused
    /\ InitJit

NextJit ==
    \/ ExecLoadSrc
    \/ ExecLoadVar
    \/ ExecLoad
    \/ ExecDrop
    \/ ExecRef
    \/ ExecStore
    \/ ExecAlloca
    \/ ExecInsert

SpecJit == InitJitSpec /\ [][NextJit]_vars

-----------------------------------------------------------------------------
(* SpecRead: the opcodes that read named files, on every path.             *)

NextRead ==
    \/ NextLine
    \/ ReadErr

SpecRead == InitFileSpec /\ [][NextRead]_vars

-----------------------------------------------------------------------------
(* SpecLine: the opcodes on the fields of the current record, the records  *)
(* read from one input file.                                               *)

InitLineSpec ==
    /\ DispatchUnused
    /\ RngUnused
    /\ MapUnused
    /\ read_files = NewFileRead(<< File(F_a, <<R_1, R_2>>) >>)
    /\ variables = NewVariables
    /\ line = NewLine(<<>>)
    /\ file_regs = [str |-> <<>>, int |-> 0]
    /\ file_hist = [op |-> "none", n |-> 0, pre |-> variables, from |-> read_files,
                    regs |-> file_regs, line |-> line, arg |-> 0]

NextLineOps ==
    \/ NextLineStdinFused
    \/ GetColumn
    \/ SetColumn
    \/ StoreVarStr
    \/ LoadVarInt
    \/ StoreVarInt

SpecLine == InitLineSpec /\ [][NextLineOps]_vars

-----------------------------------------------------------------------------
(* SpecMap: the map and Push/Pop opcodes in any order.  SpecIter: the      *)
(* iterator opcodes, with the opcodes that change a map or make a register *)
(* denote another one, in any order.                                       *)

InitMapSpec ==
    /\ DispatchUnused
    /\ RngUnused
    /\ FileUnused
    /\ InitMap

NextMap ==
    \/ StoreIntInt
    \/ DeleteIntInt
    \/ LookupIntInt
    \/ ContainsIntInt
    \/ LenIntInt
    \/ MovMapIntInt
    \/ AllocMapIntInt
    \/ PushIntInt
    \/ PopIntInt

SpecMap == InitMapSpec /\ [][NextMap]_vars

NextIter ==
    \/ StoreIntInt
    \/ DeleteIntInt
    \/ MovMapIntInt
    \/ IterBeginIntInt
    \/ IterHasNextInt
    \/ IterGetNextInt

SpecIter == InitMapSpec /\ [][NextIter]_vars

\* AllocMap on registers that share a map, with the opcodes that show what
\* each handle denotes afterwards.
InitAllocSpec ==
    /\ DispatchUnused
    /\ RngUnused
    /\ FileUnused
    /\ InitShared

NextAlloc ==
    \/ AllocMapIntInt
    \/ StoreIntInt
    \/ LookupIntInt
    \/ PushIntInt

SpecAlloc == InitAllocSpec /\ [][NextAlloc]_vars

-----------------------------------------------------------------------------
(* Properties of the random source (checked under SpecRng).                *)

\* C6: every Srand and ReseedRng stores in its result register the seed that
\* was active just before it: the value passed to the latest earlier Srand
\* (bit for bit, a negative Int unchanged), or the seed drawn by the latest
\* earlier ReseedRng, or the seed of Interp::new; Rand never changes the
\* active seed.
C6_SrandReturnsPreviousSeed ==
    \A vm \in VMs :
        /\ rng_hist[vm].op \in {"Srand", "ReseedRng"} =>
              rng_regs[vm].int = rng_hist[vm].before
        /\ AsInt(current_seed[vm]) = rng_hist[vm].active

\* Srand of the minimum Int, Rand, and then a Srand of another seed, which
\* stored the minimum Int.
C6_Witness ==
    \E vm \in VMs :
        /\ rng_hist[vm].op = "Srand"
        /\ rng_hist[vm].before = MinInt
        /\ rng_regs[vm].int = MinInt
        /\ rng_regs[vm].float # 0
        /\ rng_hist[vm].active # rng_hist[vm].before

\* C7: two interpreters that both execute Srand(k) with the same k and then
\* Rand instructions only obtain the same sequence of Rand results, whatever
\* seeds they were built with and whatever they executed before the Srand.
C7_SameSeedSameStream ==
    \A v \in VMs, w \in VMs :
        (rng_hist[v].seeded /\ rng_hist[w].seeded /\ rng_hist[v].k = rng_hist[w].k) =>
            \A i \in 1..Min(Len(rng_hist[v].outs), Len(rng_hist[w].outs)) :
                rng_hist[v].outs[i] = rng_hist[w].outs[i]

\* Two interpreters built with different seeds; one executed Rand and the
\* other ReseedRng, then both Srand(k) with the same k and one Rand.
C7_Witness ==
    /\ rng_hist[1].seed0 # rng_hist[2].seed0
    /\ rng_hist[1].seeded /\ rng_hist[2].seeded
    /\ rng_hist[1].k = rng_hist[2].k
    /\ Len(rng_hist[1].outs) = 1 /\ Len(rng_hist[2].outs) = 1
    /\ rng_hist[1].n = 3 /\ rng_hist[2].n = 3
    /\ rng_hist[1].before # rng_hist[2].before
    /\ rng_hist[1].outs = rng_hist[2].outs

-----------------------------------------------------------------------------
(* Properties of the dispatch loop (checked under Spec).                   *)

\* C1: when the write of PrintStdout, Print or Printf (to stdout or to a
\* named sink) fails, run() has returned Ok(()) at that instruction: no later
\* instruction is executed and the registers, the call stack, the position
\* and the sinks are those the failing instruction started from.
C1_WriteErrorEndsRunOk ==
    (term.seen /\ term.why = "write") =>
        /\ status = "ok"
        /\ nexec = term.n
        /\ term.op \in {"PrintStdout", "Print", "Printf"}
        /\ Snapshot = term.pre

\* A Printf to a named sink failed below one frame at least.
C1_Witness ==
    /\ term.seen /\ term.why = "write" /\ term.op = "Printf"
    /\ term.depth >= 1
    /\ status = "ok"

\* C2: Call(f) at index i of function g pushes (g, i + 1) and continues at
\* index 0 of f; Ret on a non-empty call stack pops the frame pushed last and
\* resumes right after the Call it matches; the depth of the call stack is the
\* number of Calls not yet returned from.
C2_CallRetLifo ==
    /\ Len(stack) = Len(pending)
    /\ \A j \in 1..Len(stack) : stack[j] = <<pending[j][1], pending[j][2] + 1>>
    /\ last.op = "Call" =>
          /\ cur_fn = Func(last.fn)[last.at + 1].a
          /\ cur = 0
          /\ stack = Append(last.pre.stack, <<last.fn, last.at + 1>>)
    /\ (last.op = "Ret" /\ last.depth > 0) =>
          /\ cur_fn = last.sites[Len(last.sites)][1]
          /\ cur = last.sites[Len(last.sites)][2] + 1
          /\ stack = SubSeq(last.pre.stack, 1, last.depth - 1)
          /\ status = "running"

\* A Ret two frames deep resumed its caller, another function, after its Call.
C2_Witness ==
    /\ last.op = "Ret" /\ last.depth >= 2
    /\ cur_fn # last.fn
    /\ Func(cur_fn)[cur].op = "Call"

\* C3: Halt ends the run with success at any depth of the call stack, Ret ends
\* it with success exactly when the call stack is empty, and in both cases no
\* further instruction is executed.
C3_HaltAndRetEndRun ==
    /\ (term.seen /\ term.why \in {"Halt", "Ret"}) =>
          /\ status = "ok"
          /\ nexec = term.n
          /\ term.why = "Ret" => term.depth = 0
    /\ last.op = "Halt" => status = "ok"
    /\ last.op = "Ret" => (status = "ok" <=> last.depth = 0)
    /\ last.op = "Ret" => status \in {"ok", "running"}

\* Halt ended the run below two frames.
C3_Witness ==
    /\ term.seen /\ term.why = "Halt" /\ term.depth >= 2
    /\ status = "ok" /\ Len(stack) >= 2

-----------------------------------------------------------------------------
(* Properties of the pure opcodes (checked under SpecPure).                *)

\* The instruction executed last.
LastInstr == Func(last.fn)[last.at + 1]

\* What Substr(s, l, r) is to store: the bytes of s at the 1-based positions
\* max(l, 1) .. min(r, len(s)), the empty string when there are none.
SubstrExpected(s, l, r) ==
    IF Max(l, 1) > Min(r, Len(s)) THEN <<>> ELSE SubSeq(s, Max(l, 1), Min(r, Len(s)))

\* C9: for every string s and all Int l and r, Substr(s, l, r) stores the
\* bytes of s at the 1-based positions max(l, 1) through min(r, len(s)), and
\* the empty string whenever max(l, 1) > min(r, len(s)).
C9_SubstrClamps ==
    last.op = "Substr" =>
        /\ status = "running"
        /\ strs[LastInstr.a] =
              SubstrExpected(last.pre.strs[LastInstr.b], last.pre.ints[LastInstr.c],
                             last.pre.ints[LastInstr.d])

\* The exact (unbounded) result of the arithmetic instruction executed last.
ExactResult ==
    LET l == last.pre.ints[LastInstr.b]
        r == last.pre.ints[LastInstr.c]
    IN  CASE last.op = "AddInt"   -> l + r
          [] last.op = "MulInt"   -> l * r
          [] last.op = "MinusInt" -> l - r
          [] last.op = "NegInt"   -> 0 - l

\* C10: AddInt, MinusInt, MulInt and NegInt store the exact result reduced
\* modulo 2^IntBits into the signed range, for all operand values, those
\* whose exact result is outside the signed range included.
C10_IntArithWraps ==
    last.op \in {"AddInt", "MulInt", "MinusInt", "NegInt"} =>
        /\ status = "running"
        /\ ints[LastInstr.a] = Wrap(ExactResult)

\* C11: the arithmetic opcodes complete and let execution continue with the
\* next instruction for all operand values; ModInt with a right operand of 0
\* and ModInt of the minimum Int by -1 neither abort the program nor make
\* run return an error.
C11_ArithTotal ==
    last.op = "ModInt" =>
        /\ status = "running"
        /\ cur = last.at + 1

\* C12: SplitInt stores in its result register the signed difference of the
\* size of the destination map after the split and its size before, for
\* every prior content of the destination map, a map that held more entries
\* than the split produces included.
C12_SplitStoresDelta ==
    (last.op = "SplitInt" /\ last.pre.strs[LastInstr.d] # P_bad) =>
        /\ status = "running"
        /\ ints[LastInstr.a] =
              Len(maps_int_str[LastInstr.c]) - Len(last.pre.maps_int_str[LastInstr.c])

-----------------------------------------------------------------------------
(* Properties of the registers and of the position (checked under Spec).   *)

\* C26: on programs whose functions end with Halt or Ret and whose labels
\* and function indices are in range, the current instruction index is
\* smaller than the length of the current function's instruction vector at
\* every dispatch step, nested and recursive calls included.
C26_CurInRange ==
    status = "running" =>
        /\ cur_fn \in 0..(Len(instrs) - 1)
        /\ cur \in 0..(Len(Func(cur_fn)) - 1)

\* The last instruction of a function is the current one, two calls deep.
C26_Witness ==
    /\ status = "running"
    /\ Len(stack) >= 2
    /\ cur = Len(Func(cur_fn)) - 1
    /\ nexec >= 4

\* C28: Call and Ret change the call stack, the current function and the
\* current instruction index only: every register, value stack, variable,
\* map and sink and the current record stay as they are.
C28_CallRetKeepRegisters ==
    [][(last'.n = last.n + 1 /\ last'.op \in {"Call", "Ret"}) =>
          /\ UNCHANGED <<ints, strs, maps_int_str, val_stacks, write_files>>
          /\ UNCHANGED <<variables, line, read_files, file_regs>>
          /\ UNCHANGED <<heap, maps_int_int, iters_int, map_regs>>
          /\ UNCHANGED <<current_seed, rng, rng_regs, instrs>>]_vars

\* Back in the entry function by Ret, which reads the value the callee
\* wrote to a register the entry function had written before the Call.
C28_Witness ==
    /\ last.op = "Ret" /\ last.depth >= 1
    /\ cur_fn = 0 /\ Func(0)[1] = IStoreConstInt(0, 1)
    /\ ints[0] = 0

\* C29: the number of registers of each bank is the count the compiler gave
\* for it and no instruction changes it.
C29_RegisterCountsFixed ==
    \E p \in Programs :
        /\ instrs = p.funcs
        /\ DOMAIN ints = 0..(p.nints - 1)
        /\ DOMAIN strs = 0..(p.nstrs - 1)
        /\ DOMAIN maps_int_str = {0}

\* Six instructions executed, two frames on the call stack, a Str register
\* written.
C29_Witness ==
    /\ nexec >= 6
    /\ Len(stack) >= 2
    /\ \E r \in DOMAIN strs : strs[r] # <<>>

-----------------------------------------------------------------------------
(* Properties of the value stacks (checked under SpecStack).               *)

\* C27: a Push appends a copy of the register's value to the stack of its
\* type and leaves the register as it is; a Pop removes the most recently
\* pushed value not yet popped from the stack of its type and writes it to
\* the register, so values come off in the reverse of the order they went
\* on; neither changes the stack or the registers of the other type.
C27_PushPopLifo ==
    LET h == val_stacks.hist
        pre == h.pre
        top(st) == st[Len(st)]
        front(st) == SubSeq(st, 1, Len(st) - 1)
    IN  /\ val_stacks.ints = val_stacks.pushed.ints
        /\ val_stacks.strs = val_stacks.pushed.strs
        /\ h.op = "PushInt" =>
               /\ ints = pre.ints /\ strs = pre.strs
               /\ val_stacks.ints = Append(pre.int_stack, pre.ints[h.reg])
               /\ val_stacks.strs = pre.str_stack
        /\ h.op = "PushStr" =>
               /\ ints = pre.ints /\ strs = pre.strs
               /\ val_stacks.strs = Append(pre.str_stack, pre.strs[h.reg])
               /\ val_stacks.ints = pre.int_stack
        /\ (h.op = "PopInt" /\ pre.pushed.ints # <<>>) =>
               /\ ints = [pre.ints EXCEPT ![h.reg] = top(pre.pushed.ints)]
               /\ val_stacks.ints = front(pre.int_stack)
               /\ strs = pre.strs
               /\ val_stacks.strs = pre.str_stack
        /\ (h.op = "PopStr" /\ pre.pushed.strs # <<>>) =>
               /\ strs = [pre.strs EXCEPT ![h.reg] = top(pre.pushed.strs)]
               /\ val_stacks.strs = front(pre.str_stack)
               /\ ints = pre.ints
               /\ val_stacks.ints = pre.int_stack

\* Registers 0 and 1 pushed in this order and popped into 0 and 1 in this
\* order: the two values have changed places.
C27_Witness ==
    /\ val_stacks.hist.op = "PopInt"
    /\ val_stacks.hist.n = 4
    /\ val_stacks.ints = <<>>
    /\ ints = RegsOf(<<2, 1>>)
    /\ status = "running"

-----------------------------------------------------------------------------
(* Properties of the generated code (checked under SpecJit).               *)

\* A value the code can still reach: the value being bound, and what a
\* register or the built-in variable holds, the destination global left out
\* while the store that overwrites it is still to come.
JitReachable(v) ==
    \/ jit.to = v
    \/ JitHolders(v) \ {"g"} # {}
    \/ /\ jit.glob["g"] = v
       /\ \A i \in 1..Len(jit.code) : jit.code[i].op # "store"

\* C34: while the code generated for binding a value to a global Str or map
\* register runs, the reference count of a value that can still be reached
\* is never zero, the case where the value bound is the one the global
\* holds already, with a count of 1, included.
C34_ReachableCountStaysPositive ==
    (jit.state = "running" /\ is_global(jit.inst.dst)) =>
        \A v \in JitVals : JitReachable(v) => jit.rc[v] >= 1

\* C35: when the code generated for LoadVarStr or LoadVarIntMap has run, the
\* value loaded has one reference more for its new holder, the destination
\* being a global or a local: as at function entry, its count is the number
\* of registers and variables that hold it.
C35_LoadVarAddsOneReference ==
    (jit.inst.op = "LoadVar" /\ jit.code = <<>> /\ jit.state = "running") =>
        jit.rc[jit.var] = Cardinality(JitHolders(jit.var))

-----------------------------------------------------------------------------
(* Properties of the output opcodes (checked under Spec).                  *)

\* C13: when the formatting of a Sprintf or of a Printf (to stdout or to a
\* named sink) fails, or a `?` returns an error, run() returns that error and
\* executes no further instruction.
C13_FailuresReturnError ==
    (term.seen /\ term.why \in {"format", "error"}) =>
        /\ status = "err"
        /\ nexec = term.n

\* C14: a Sprintf or Printf with an argument that is a map or an iterator, at
\* any position of the argument list, makes run() return an error; the
\* destination register of the Sprintf keeps its value and the Printf has
\* written nothing to stdout or to a sink.
C14_NonScalarArgIsError ==
    (/\ last.op \in {"Printf", "Sprintf"}
     /\ \E k \in 1..Len(LastInstr.args) :
           LastInstr.args[k][2] \notin {"Str", "Int", "Float"}) =>
        /\ status = "err"
        /\ nexec = last.n
        /\ strs = last.pre.strs
        /\ write_files = last.pre.write_files

\* A Printf to a named sink whose last argument is a map failed after output
\* had reached stdout and a sink.
C14_Witness ==
    /\ last.op = "Printf" /\ LastInstr.c = 1
    /\ Len(LastInstr.args) = 3
    /\ LastInstr.args[3][2] = "MapIntInt"
    /\ status = "err"
    /\ write_files.stdout # <<>>
    /\ DOMAIN write_files.sinks # {}

\* C17: a write error that surfaces when Close flushes a named sink ends the
\* run with success.
C17_CloseErrorEndsRunOk ==
    (term.seen /\ term.why = "close") => status = "ok"

\* C18: after a Close(path) that completed, the sink table has no entry for
\* path, whether or not a sink was open for it before.
C18_CloseRemovesSink ==
    (last.op = "Close" /\ status = "running") =>
        last.pre.strs[LastInstr.a] \notin DOMAIN write_files.sinks

\* The texts the log of the run hands to one sink, in the order of the
\* instructions: to stdout, or to the sink of `path` since the last Close of
\* that path.
RECURSIVE Delivered(_, _, _)
Delivered(log, std, path) ==
    IF log = <<>> THEN <<>>
    ELSE LET e    == log[Len(log)]
             rest == SubSeq(log, 1, Len(log) - 1)
         IN  IF e.std = std /\ e.path = path
             THEN IF e.closed THEN <<>>
                  ELSE Append(Delivered(rest, std, path), e.text)
             ELSE Delivered(rest, std, path)

LogPaths == {last.log[i].path : i \in {j \in 1..Len(last.log) : ~last.log[j].std}}

\* C19: stdout holds the texts of the PrintStdout and stdout-Printf
\* instructions in the order they were executed, and every named sink holds
\* the texts of the Print and Printf instructions that named it, in their
\* order: nothing is dropped, duplicated or reordered within one sink.
C19_OutputInProgramOrder ==
    /\ write_files.stdout = Delivered(last.log, TRUE, <<>>)
    /\ \A p \in LogPaths \cup DOMAIN write_files.sinks :
          IF p \in DOMAIN write_files.sinks
          THEN write_files.sinks[p] = Delivered(last.log, FALSE, p)
          ELSE Delivered(last.log, FALSE, p) = <<>>

\* Two different texts on stdout, and a sink written to again after its Close.
C19_Witness ==
    /\ Len(write_files.stdout) >= 2
    /\ write_files.stdout[1] # write_files.stdout[2]
    /\ \E p \in DOMAIN write_files.sinks :
          /\ write_files.sinks[p] # <<>>
          /\ \E i \in 1..Len(last.log) : last.log[i].closed /\ last.log[i].path = p

-----------------------------------------------------------------------------
(* Properties of the named input files (checked under SpecRead) and of the *)
(* fields of the record (checked under SpecLine).                          *)

C24_NfIsComputed ==
    /\ file_hist.op = "LoadVarInt" =>
          file_regs.int = Len(Fields(line.rec, variables.fs))
    /\ (file_hist.op = "StoreVarInt" /\ file_hist.arg = "nf") =>
          line = file_hist.line

\* C25: GetColumn(k) stores the record for k = 0, the k-th field for
\* 1 <= k <= NF and the empty string for k > NF; for k < 0 run returns an
\* error and the destination register keeps its value.
C25_GetColumnByIndex ==
    file_hist.op = "GetColumn" =>
        LET k == file_hist.arg IN
        /\ k = 0 => status = "running" /\ file_regs.str = file_hist.line.rec
        /\ (k >= 1 /\ k <= Len(line.fields)) =>
               status = "running" /\ file_regs.str = line.fields[k]
        /\ k > Len(line.fields) => status = "running" /\ file_regs.str = <<>>
        /\ k < 0 => status = "err" /\ file_regs = file_hist.regs
        /\ k >= 1 => line.split /\ line.rec = file_hist.line.rec
        /\ (k >= 1 /\ ~file_hist.line.split) =>
               line.fields = Fields(line.rec, variables.fs)

\* A negative column after a field was read into the register.
C25_Witness ==
    /\ file_hist.op = "GetColumn" /\ file_hist.arg < 0
    /\ status = "err"
    /\ file_regs.str # <<>>
    /\ Len(line.fields) >= 2

\* C16: GetColumn(k >= 1) returns field k of the current record split with
\* the current field separator, whatever was written before it (the record,
\* a field, FS).
C16_FieldsFollowRecordAndFs ==
    (file_hist.op = "GetColumn" /\ file_hist.arg >= 1) =>
        file_regs.str =
            IF file_hist.arg > Len(Fields(line.rec, variables.fs)) THEN <<>>
            ELSE Fields(line.rec, variables.fs)[file_hist.arg]

-----------------------------------------------------------------------------
(* Properties of the string opcodes (checked under SpecStr).               *)

\* t occurs in s at the 1-based byte index i
OccursAt(s, t, i) ==
    /\ i + Len(t) - 1 <= Len(s)
    /\ \A j \in 1..Len(t) : s[i + j - 1] = t[j]

\* C21: SubstrIndex(s, t) is 0 exactly when t does not occur in s, and is
\* otherwise the 1-based byte index of the first occurrence of t in s (1 for
\* the empty t).
C21_SubstrIndexFirstOccurrence ==
    last.op = "SubstrIndex" =>
        LET s == last.pre.strs[LastInstr.b]
            u == last.pre.strs[LastInstr.c]
            i == ints[LastInstr.a]
        IN  /\ status = "running"
            /\ i = 0 <=> ~\E j \in 1..(Len(s) + 1) : OccursAt(s, u, j)
            /\ i # 0 => /\ i \in 1..(Len(s) + 1)
                        /\ OccursAt(s, u, i)
                        /\ \A j \in 1..(i - 1) : ~OccursAt(s, u, j)

\* t occurs in s twice, first at the second byte.
C21_Witness ==
    /\ last.op = "SubstrIndex"
    /\ ints[LastInstr.a] = 2
    /\ strs[LastInstr.c] # <<>>
    /\ OccursAt(strs[LastInstr.b], strs[LastInstr.c], 3)

\* C22: IsMatch stores 1 exactly when Match on the same operands stores a
\* nonzero start index, the empty match and the match at the first byte
\* included.
C22_IsMatchIffMatchNonzero ==
    (last.op = "IsMatch" /\ instrs = ProgMatch) =>
        /\ status = "running"
        /\ ints[1] \in {0, 1}
        /\ ints[1] = 1 <=> ints[0] # 0

\* The empty pattern on a string that is not empty: a match at the first byte.
C22_Witness ==
    /\ last.op = "IsMatch" /\ instrs = ProgMatch
    /\ strs[1] = <<>> /\ strs[0] # <<>>
    /\ ints[0] = 1 /\ ints[1] = 1

\* C33: every Match that completes sets the match start and match length
\* variables from its own operands: the 1-based start of the first match and
\* the length of the match, or 0 and -1 without a match, whatever an earlier
\* Match left there, and changes no other variable; IsMatch changes no
\* variable.
C33_MatchSetsVarsIsMatchKeepsThem ==
    [][LET i == Func(cur_fn)[cur + 1]
           s == strs[i.b]
           pat == strs[i.c]
           st == variables'.rstart
           ln == variables'.rlength
       IN  /\ (last'.n = last.n + 1 /\ last'.op = "Match" /\ status' = "running") =>
                  /\ st = ints'[i.a]
                  /\ IF \E k \in 1..(Len(s) + 1) : OccursAt(s, pat, k)
                     THEN /\ st >= 1 /\ OccursAt(s, pat, st) /\ ln = Len(pat)
                          /\ \A k \in 1..(st - 1) : ~OccursAt(s, pat, k)
                     ELSE st = 0 /\ ln = -1
                  /\ [variables' EXCEPT !.rstart = variables.rstart,
                                        !.rlength = variables.rlength] = variables
           /\ (last'.n = last.n + 1 /\ last'.op = "IsMatch") =>
                  UNCHANGED variables]_vars

\* The second Match finds nothing after the first one found its pattern: the
\* variables of the first Match are gone.
C33_Witness ==
    /\ instrs = ProgMatchTwice
    /\ last.op = "Match" /\ nexec = 3 /\ status = "running"
    /\ last.pre.ints[0] >= 1
    /\ ints[0] = 0
    /\ variables.rstart = 0 /\ variables.rlength = -1

\* C32: a Sub or GSub that completes writes its in_s register and its result
\* register and nothing else: every other Str register, slot of the value
\* stack and map entry that held the string of in_s holds the same bytes
\* afterwards, and so do the variables and the record.  Without a match in_s
\* keeps its bytes and the count is 0; with one, Sub stores 1 and the string
\* with the first match replaced, GSub the number of matches replaced and a
\* string that is longer or shorter by that many replacements.
C32_SubWritesOnlyInSAndCount ==
    [][LET i == Func(cur_fn)[cur + 1]
           old == strs[i.d]
           pat == strs[i.b]
           repl == strs[i.c]
           new == strs'[i.d]
           n == ints'[i.a]
           hit == \E k \in 1..Len(old) : OccursAt(old, pat, k)
       IN  (/\ last'.n = last.n + 1
            /\ last'.op \in {"Sub", "GSub"}
            /\ status' = "running") =>
               /\ \A r \in DOMAIN strs \ {i.d} : strs'[r] = strs[r]
               /\ \A r \in DOMAIN ints \ {i.a} : ints'[r] = ints[r]
               /\ UNCHANGED <<val_stacks, maps_int_str, variables, line>>
               /\ UNCHANGED <<heap, maps_int_int, iters_int, write_files>>
               /\ ~hit => (new = old /\ n = 0)
               /\ hit => /\ n >= 1
                         /\ Len(new) = Len(old) + n * (Len(repl) - Len(pat))
                         /\ i.op = "Sub" =>
                               /\ n = 1
                               /\ \E k \in 1..Len(old) :
                                     /\ OccursAt(old, pat, k)
                                     /\ \A j \in 1..(k - 1) : ~OccursAt(old, pat, j)
                                     /\ new = SubSeq(old, 1, k - 1) \o repl
                                                \o SubSeq(old, k + Len(pat), Len(old))]_vars

\* After the Sub that replaced a match in register 2: register 3, the slot of
\* the value stack and the map entry hold the bytes register 2 held.
C32_Witness ==
    /\ instrs = ProgSub
    /\ last.op = "Sub" /\ status = "running"
    /\ ints[0] = 1
    /\ strs[2] # last.pre.strs[2]
    /\ strs[3] = last.pre.strs[2]
    /\ val_stacks.strs = <<last.pre.strs[2]>>
    /\ maps_int_str[0][1].v = last.pre.strs[2]

\* C23: Concat(a, b), then Substr of the result with l = 1 and r = LenStr(a)
\* gives a, and LenStr of the concatenation is LenStr(a) + LenStr(b).
C23_ConcatThenSubstr ==
    (last.op = "Substr" /\ instrs = ProgConcat) =>
        /\ status = "running"
        /\ strs[3] = strs[0]
        /\ ints[0] = Len(strs[0])
        /\ ints[1] = Len(strs[0]) + Len(strs[1])

\* Two different strings, neither empty.
C23_Witness ==
    /\ last.op = "Substr" /\ instrs = ProgConcat
    /\ strs[0] # <<>> /\ strs[1] # <<>> /\ strs[0] # strs[1]
    /\ strs[3] = strs[0]

-----------------------------------------------------------------------------
(* Properties of maps and iterators (checked under SpecIter, SpecMap and    *)
(* SpecAlloc).                                                             *)

\* C4: an iterator created by IterBegin yields, through successive
\* IterGetNext, exactly the keys the map held when it was created, in their
\* insertion order at that moment, whatever is stored into or deleted from
\* the map afterwards through any register denoting it: what it has yielded
\* is always a prefix of those keys, it has a next key exactly while some of
\* them are left, and once it is exhausted it has yielded all of them.
C4_IterYieldsSnapshot ==
    \A r \in IterRegs :
        LET h == map_hist.it[r] IN
        h.begun =>
            /\ IsPrefix(h.got, h.expect)
            /\ has_next(iters_int[r]) <=> Len(h.got) < Len(h.expect)

\* An iterator has yielded all its keys, one of them after it was deleted
\* from the map and none of those stored meanwhile, the map having been
\* changed through another register than the one the iterator was created
\* from.
C4_Witness ==
    \E r \in IterRegs :
        LET h == map_hist.it[r] IN
        /\ h.begun
        /\ h.got = h.expect
        /\ h.got # <<>>
        /\ h.aliased
        /\ h.gonehit
        /\ h.newhit

\* C31: an iterator created over a map of n keys gives n keys and no more,
\* whatever is stored into or deleted from the map meanwhile: IterHasNext
\* stores 1 while fewer than n IterGetNext were executed on it and 0 from
\* then on, so a loop that tests IterHasNext before each IterGetNext runs its
\* body n times; once IterHasNext has stored 0 the iterator has nothing left
\* and every later IterHasNext stores 0.
C31_IterLoopRunsOncePerKey ==
    /\ map_hist.look.more # -1 => map_regs = map_hist.look.more
    /\ \A r \in IterRegs :
          LET h == map_hist.it[r] IN
          h.begun =>
              /\ Len(h.got) <= Len(h.expect)
              /\ h.done => (Len(h.got) = Len(h.expect) /\ ~has_next(iters_int[r]))
              /\ (h.done /\ map_hist.look.more # -1) => map_regs = 0

\* The second IterHasNext in a row that stores 0, on an iterator that has
\* given its keys, the map holding more keys by now than it held when the
\* iterator was created.
C31_Witness ==
    /\ map_hist.look.again /\ map_hist.look.more = 0 /\ map_regs = 0
    /\ \E r \in IterRegs :
          LET h == map_hist.it[r] IN
          /\ h.done /\ h.got = h.expect /\ h.got # <<>>
          /\ h.src # 0 /\ len(heap[h.src]) > Len(h.expect)

\* C5: after MovMap(dst, src), and after Push(src) ... Pop(dst), the two
\* registers denote the same map until one of them is overwritten: Lookup,
\* Contains and Len give the same results through both, whatever was stored
\* or deleted through either since.
C5_MovedMapsAreShared ==
    \A l \in map_hist.linked :
        /\ len(MapOf(l.a)) = len(MapOf(l.b))
        /\ \A k \in Keys : get(MapOf(l.a), k) = get(MapOf(l.b), k)

\* Two registers are linked by Push/Pop and denote a map that is not empty,
\* after a Store through a register linked by Mov and a Delete through one
\* linked by Push/Pop.
C5_Witness ==
    \E l \in map_hist.linked :
        /\ l.by = "Pop"
        /\ len(MapOf(l.a)) > 0
        /\ {<<"Mov", "Store">>, <<"Pop", "Delete">>} \subseteq map_hist.shared

\* C36: Lookup and Contains change no map.  The keys a map holds are the
\* keys stored into it and not deleted since, however many Lookups and
\* Contains of missing keys ran in between: a Contains stores 1 exactly for
\* such a key (0 for a key that a Lookup has just found missing), a Len
\* stores their number, and an iterator created over the map yields no other
\* key.
C36_LookupAndContainsOnlyRead ==
    LET stored(id) == {k \in Keys : map_hist.vals[id][k].some} IN
    /\ \A id \in Refs(maps_int_int) :
          /\ KeySet(heap[id]) = stored(id)
          /\ len(heap[id]) = Cardinality(stored(id))
          /\ \A i \in 1..Len(to_iter(heap[id])) : to_iter(heap[id])[i] \in stored(id)
    /\ map_hist.look.has # -1 => map_regs = map_hist.look.has
    /\ map_hist.look.len # -1 => map_regs = map_hist.look.len
    /\ (map_hist.look.again /\ map_hist.look.has # -1) => map_regs = 0

\* A Contains of a key right after a Lookup that found the key missing in the
\* same map, which holds another key.
C36_Witness ==
    /\ map_hist.look.again /\ map_hist.look.has = 0
    /\ map_regs = 0
    /\ \E id \in Refs(maps_int_int) : heap[id] # <<>>

\* C37: AllocMap(dst) binds dst to a new empty map and leaves the map dst
\* held as it is.  With the registers sharing one map at first and no other
\* instruction that rebinds a register: once an AllocMap has run, the
\* registers denote different maps, and every map a register or a slot of
\* the value stack denotes holds exactly the entries stored through a handle
\* on it, so that the old map keeps its entries and gets none of the entries
\* stored through dst afterwards.
C37_AllocMapLeavesOldMap ==
    /\ map_hist.linked = {} => maps_int_int.regs[0] # maps_int_int.regs[1]
    /\ map_hist.linked # {} => maps_int_int.regs[0] = maps_int_int.regs[1]
    /\ \A id \in Refs(maps_int_int), k \in Keys :
          LET e == map_hist.vals[id][k] IN
          get(heap[id], k) = IF e.some THEN e ELSE [some |-> FALSE, v |-> 0]

\* After AllocMap(0) and a Store through register 0: register 1 and a slot of
\* the value stack denote the old map with its entries, register 0 a map
\* with a key the old map does not hold.
C37_Witness ==
    /\ map_hist.linked = {}
    /\ maps_int_int.regs[1] = 1 /\ maps_int_int.regs[0] # 1
    /\ maps_int_int.stack = <<1>>
    /\ heap[1] # <<>>
    /\ \E k \in Keys : HasKey(MapOf(0), k) /\ ~HasKey(heap[1], k)

\* C20: a Lookup of a key the map does not hold stores 0; a Lookup of a key
\* it holds stores the value stored last under that key.
C20_LookupFindsLastStore ==
    map_hist.look.on => map_regs = map_hist.look.want

\* A Lookup of a key that was stored and then deleted, in a map that still
\* holds another key.
C20_Witness ==
    /\ map_hist.look.on /\ map_hist.look.gone
    /\ map_regs = 0
    /\ \E r \in MapRegs : len(MapOf(r)) >= 1

-----------------------------------------------------------------------------
(* Properties of the input opcodes (checked under SpecFile).               *)

\* C30: NextLineStdin and NextLineStdinFused set FNR to 0 and the filename
\* variable to the reader's current file name exactly when the reader says
\* the primary source file changed, and leave both alone otherwise;
\* NextLineStdinFused writes the record into the current-record slot and no
\* register, NextLineStdin writes it to its destination register.
C30_ResetExactlyOnChange ==
    file_hist.op \in {"NextLineStdin", "NextLineStdinFused"} =>
        LET got == get_line_stdin(file_hist.from) IN
        /\ variables.nr = file_hist.pre.nr
        /\ got.changed =>
              /\ variables.fnr = 0
              /\ variables.filename = stdin_filename(read_files)
        /\ ~got.changed =>
              /\ variables.fnr = file_hist.pre.fnr
              /\ variables.filename = file_hist.pre.filename
        /\ file_hist.op = "NextLineStdinFused" =>
              line = NewLine(got.res) /\ file_regs = file_hist.regs
        /\ file_hist.op = "NextLineStdin" =>
              file_regs.str = got.res /\ line = file_hist.line

\* A record of the same file read by NextLineStdinFused while FNR was
\* positive, after the reader had moved to the second file.
C30_Witness ==
    /\ file_hist.op = "NextLineStdinFused"
    /\ ~get_line_stdin(file_hist.from).changed
    /\ file_hist.pre.fnr > 0
    /\ variables.filename # <<>>
    /\ line.rec # <<>>

\* C8: right after NextFile, before any NextLine instruction runs, FNR is 0
\* and the filename variable is the name of the reader's new current primary
\* file; NR is what it was before NextFile.
C8_NextFileResetsFileVars ==
    file_hist.op = "NextFile" =>
        /\ variables.fnr = 0
        /\ variables.filename = stdin_filename(read_files)
        /\ variables.nr = file_hist.pre.nr

\* NextFile has just left a file that had records left for the next one,
\* with FNR and NR positive and another filename before it.
C8_Witness ==
    /\ file_hist.op = "NextFile"
    /\ file_hist.pre.fnr > 0
    /\ file_hist.pre.nr > 0
    /\ file_hist.pre.filename # variables.filename
    /\ file_hist.from.cur.lines # <<>>
    /\ file_hist.from.queue # <<>>
    /\ stdin_filename(read_files) = Head(file_hist.from.queue).name

-----------------------------------------------------------------------------
(* Termination of the dispatch loop (checked under SpecLive).               *)

\* C38: on a program whose Jmp and JmpIf labels all lie after the jumping
\* instruction, whose call graph has no cycle and whose functions end with
\* Halt or Ret, and with reads and writes that return, run() eventually
\* returns: by Halt, by Ret on the empty call stack, by a failed write or
\* with an error.
C38_RunReturns ==
    <>(/\ status \in {"ok", "err"}
       /\ term.seen
       /\ term.why \in {"Halt", "Ret", "write", "error", "format", "close"})

\* run() has returned by Ret on the empty call stack after a JmpIf that was
\* taken, a call whose JmpIf was not taken, and a Jmp.
C38_Witness ==
    /\ instrs = ProgForward.funcs
    /\ status = "ok"
    /\ term.seen
    /\ term.why = "Ret"
    /\ nexec = 9

====
